---- MODULE Spec2Model ----
(***************************************************************************)
(* Thermal control engine of the Radxa Penta fan controller                *)
(* (src/src/thermal.c, src/src/config.c, src/include/config.h).            *)
(*                                                                         *)
(* Numbers.  The C code computes in double; the model computes in exact    *)
(* fixed point:                                                            *)
(*   temperatures   in units of 1/TempScale degree Celsius,                *)
(*   duty cycles    in units of 1/DutyScale (DutyScale = 1.00),            *)
(*   cooldown hold  in units of 1/HoldScale second.                        *)
(* Sensor readings are whole degrees, so every mean over 1..10 samples and *)
(* every half-window trend is an exact multiple of the unit (TempScale is  *)
(* lcm(1..10)).  Storage temperatures are C ints in degrees and keep their *)
(* integer division.  Binary rounding of doubles is outside the model.     *)
(***************************************************************************)
EXTENDS Integers, Sequences, FiniteSets, TLC

\* ---------------------------------------------------------------- units
TempScale == 2520
DutyScale == 6000
HoldScale == 2

\* include/config.h (thermal.h part): ring buffer capacity
TEMP_HISTORY_SIZE == 10
\* thermal.c:61  devices[] = {"sda","sdb","sdc","sdd"}
NUM_DEVICES == 4

Deg(n) == n * TempScale
Pct(n) == n * (DutyScale \div 100)

Abs(x) == IF x < 0 THEN -x ELSE x
Max2(a, b) == IF a > b THEN a ELSE b
Min2(a, b) == IF a < b THEN a ELSE b

\* ---------------------------------------------------------------- bounds
\* control cycles explored with the full set of readings and clock steps
MaxCycles == 4
\* control cycles explored with the reduced set of readings (long runs)
MaxDeepCycles == 9
\* control cycles with arbitrary readings before the sensors go silent
MaxWarm == 2
\* value at which stable_cycles is held once the sensors are silent (the code
\* only tests stable_cycles > 5)
StableSaturation == 6
\* control cycles explored with steadily rising / falling readings (the ring
\* buffer wraps after TEMP_HISTORY_SIZE cycles)
MaxRampCycles == 13
\* control cycles before the CPU temperature settles above lv3
MaxHeatCycles == 14
\* control cycles explored with a hardware PWM node that may fail to open
MaxLoopCycles == 5
\* control cycles before and during a shutdown
MaxStopCycles == 2

\* ---------------------------------------------------------------- configuration
\* config.c:68-76 / 112-120
DefaultFan == [lv0 |-> Deg(55), lv1 |-> Deg(62), lv2 |-> Deg(70), lv3 |-> Deg(78)]
DefaultFanSsd == [lv0 |-> Deg(45), lv1 |-> Deg(50), lv2 |-> Deg(55), lv3 |-> Deg(60)]

\* config.c:81-91 / 125-134
DefaultThermal ==
  [ hysteresis_c            |-> Deg(3),
    deadband_c              |-> (3 * TempScale) \div 2,
    trend_heat_c            |-> (3 * TempScale) \div 10,
    trend_fast_heat_c       |-> Deg(1),
    max_dc_change_per_cycle |-> Pct(10),
    up_rate_base_per_cycle  |-> Pct(7),
    up_rate_trend_gain      |-> Pct(20),
    up_rate_max_per_cycle   |-> Pct(30),
    down_rate_per_cycle     |-> Pct(5),
    cooldown_hold_sec       |-> 20 * HoldScale ]

\* config_load with no file and no environment override
DefaultConfig ==
  [ fan |-> DefaultFan, fan_ssd |-> DefaultFanSsd, fan_enabled |-> 1,
    thermal |-> DefaultThermal ]

\* config_load with a [thermal] section / RADXA_* overrides.  Every tunable
\* stays non-negative and the thresholds stay monotonic.
\*   FracHold : cooldown_hold_sec = 1.5
\*   ShortHold: cooldown_hold_sec = 2
\*   Adaptive : max_dc_change = 0 (legacy cap off), cooldown_hold_sec = 0
FracHoldConfig ==
  [DefaultConfig EXCEPT !.thermal.cooldown_hold_sec = 3]
ShortHoldConfig ==
  [DefaultConfig EXCEPT !.thermal.cooldown_hold_sec = 2 * HoldScale]
AdaptiveConfig ==
  [DefaultConfig EXCEPT !.thermal.max_dc_change_per_cycle = 0,
                        !.thermal.cooldown_hold_sec = 0]

Configs == {DefaultConfig, FracHoldConfig, ShortHoldConfig, AdaptiveConfig}

\* ---------------------------------------------------------------- sensors
\* What the thermal zone file holds: a millidegree integer, or nothing
\* readable (fopen / fscanf failure).
Unavailable == -1

\* Variant: a read failure is reported as -1 instead of 0.
thermal_read_cpu_temp_ErrorCode(file) ==
  IF file = Unavailable THEN -TempScale ELSE (file * TempScale) \div 1000

\* thermal.c:13-28
thermal_read_cpu_temp(file) ==
  IF file = Unavailable THEN 0 ELSE (file * TempScale) \div 1000

\* thermal.c:60-95.  dev[i] is the temperature smartctl reports for device i
\* (1..199), or 0 when the device is absent or reports none.  The function
\* fills temps[i] for the four devices and returns how many were found.
thermal_read_ssd_temps(dev) ==
  [ temps |-> [i \in 1..NUM_DEVICES |-> IF dev[i] > 0 /\ dev[i] < 200 THEN dev[i] ELSE 0],
    found |-> Cardinality({i \in 1..NUM_DEVICES : dev[i] > 0 /\ dev[i] < 200}) ]

\* thermal.c:228-233: maximum over the first ssd_count slots
RECURSIVE MaxOverFirst(_, _)
MaxOverFirst(temps, n) ==
  IF n = 0 THEN 0
  ELSE Max2(MaxOverFirst(temps, n - 1), temps[n])

max_ssd_temp_of(dev) ==
  LET r == thermal_read_ssd_temps(dev)
  IN  MaxOverFirst(r.temps, r.found)

\* ---------------------------------------------------------------- history math
RECURSIVE SumFirst(_, _)
SumFirst(history, n) ==
  IF n = 0 THEN 0 ELSE SumFirst(history, n - 1) + history[n]

\* thermal.c:141-149 (double)
calculate_moving_average(history, count) ==
  IF count = 0 THEN 0 ELSE SumFirst(history, count) \div count

\* Variant: the sum is always divided by the buffer capacity.
calculate_moving_average_int_FixedWindow(history, count) ==
  IF count = 0 THEN 0 ELSE SumFirst(history, count) \div TEMP_HISTORY_SIZE

\* thermal.c:151-159 (int, truncating)
calculate_moving_average_int(history, count) ==
  IF count = 0 THEN 0 ELSE SumFirst(history, count) \div count

\* Variant: a trend is already taken from two samples.
calculate_temp_trend_NoMinimum(history, count) ==
  IF count < 2 THEN 0
  ELSE LET half == count \div 2
           older_sum == SumFirst(history, half)
           recent_sum == SumFirst(history, 2 * half) - older_sum
       IN  (recent_sum \div half) - (older_sum \div half)

\* thermal.c:161-179: mean of slots half..2*half-1 minus mean of slots 0..half-1
calculate_temp_trend(history, count) ==
  IF count < 3 THEN 0
  ELSE LET half == count \div 2
           older_sum == SumFirst(history, half)
           recent_sum == SumFirst(history, 2 * half) - older_sum
       IN  (recent_sum \div half) - (older_sum \div half)

\* thermal.c:181-199: int sums, double means (result in temperature units)
calculate_temp_trend_int(history, count) ==
  IF count < 3 THEN 0
  ELSE LET half == count \div 2
           older_sum == SumFirst(history, half)
           recent_sum == SumFirst(history, 2 * half) - older_sum
       IN  ((recent_sum * TempScale) \div half) - ((older_sum * TempScale) \div half)

\* ---------------------------------------------------------------- threshold mapping
\* Variant: the hysteresis is applied on the heating side instead.
config_temp_to_dc_with_hysteresis_Inverted(fan_cfg, temp, hysteresis_c, is_heating) ==
  LET hysteresis == IF is_heating THEN hysteresis_c ELSE 0
  IN  IF temp >= fan_cfg.lv3 - hysteresis THEN Pct(100)
      ELSE IF temp >= fan_cfg.lv2 - hysteresis THEN Pct(75)
      ELSE IF temp >= fan_cfg.lv1 - hysteresis THEN Pct(50)
      ELSE IF temp >= fan_cfg.lv0 - hysteresis THEN Pct(25)
      ELSE 0

\* thermal.c:202-213
config_temp_to_dc_with_hysteresis(fan_cfg, temp, hysteresis_c, is_heating) ==
  LET hysteresis == IF is_heating THEN 0 ELSE hysteresis_c
  IN  IF temp >= fan_cfg.lv3 - hysteresis THEN Pct(100)
      ELSE IF temp >= fan_cfg.lv2 - hysteresis THEN Pct(75)
      ELSE IF temp >= fan_cfg.lv1 - hysteresis THEN Pct(50)
      ELSE IF temp >= fan_cfg.lv0 - hysteresis THEN Pct(25)
      ELSE 0

\* Variant: the comparison is reversed and the lower target wins.
HigherTarget_Reversed(dc_cpu_target, dc_ssd_target) ==
  IF dc_cpu_target < dc_ssd_target THEN dc_cpu_target ELSE dc_ssd_target

\* thermal.c:259-260
HigherTarget(dc_cpu_target, dc_ssd_target) ==
  IF dc_cpu_target > dc_ssd_target THEN dc_cpu_target ELSE dc_ssd_target

\* Variant: the dead-band does not wait for the duty to have been stable.
SkipAdjustment_AnyStability(th, stable_cycles, max_temp_change, dc_target, last_duty_cycle) ==
  /\ Abs(max_temp_change) < th.deadband_c
  /\ Abs(dc_target - last_duty_cycle) < Pct(15)

\* thermal.c:269-275: dead-band test
SkipAdjustment(th, stable_cycles, max_temp_change, dc_target, last_duty_cycle) ==
  /\ stable_cycles > 5
  /\ Abs(max_temp_change) < th.deadband_c
  /\ Abs(dc_target - last_duty_cycle) < Pct(15)

\* Variant: the trend does not raise the allowed upward step.
UpRate_NoTrendGain(th, heat_trend) ==
  LET r0 == th.up_rate_base_per_cycle
      r2 == IF th.max_dc_change_per_cycle > 0 /\ th.max_dc_change_per_cycle < r0
            THEN th.max_dc_change_per_cycle ELSE r0
  IN  IF r2 > th.up_rate_max_per_cycle THEN th.up_rate_max_per_cycle ELSE r2

\* Variant: the legacy cap max_dc_change_per_cycle is not applied.
UpRate_NoLegacyCap(th, heat_trend) ==
  LET r0 == th.up_rate_base_per_cycle
      r1 == IF heat_trend > 0
            THEN r0 + (th.up_rate_trend_gain * heat_trend) \div TempScale
            ELSE r0
  IN  IF r1 > th.up_rate_max_per_cycle THEN th.up_rate_max_per_cycle ELSE r1

\* thermal.c:279-292: allowed upward step
UpRate(th, heat_trend) ==
  LET r0 == th.up_rate_base_per_cycle
      r1 == IF heat_trend > 0
            THEN r0 + (th.up_rate_trend_gain * heat_trend) \div TempScale
            ELSE r0
      r2 == IF th.max_dc_change_per_cycle > 0 /\ th.max_dc_change_per_cycle < r1
            THEN th.max_dc_change_per_cycle ELSE r1
  IN  IF r2 > th.up_rate_max_per_cycle THEN th.up_rate_max_per_cycle ELSE r2

\* thermal.c:296
HoldActive(hold_until, t) == hold_until # 0 /\ t < hold_until

\* Variant: a change is always made at the full allowed rate.
RateLimit_FullStep(dc_change, up_rate, down_rate, hold_active) ==
  IF dc_change > 0 THEN up_rate
  ELSE IF dc_change < 0
       THEN IF hold_active THEN 0 ELSE -down_rate
       ELSE dc_change

\* Variant: the upward step is not limited.
RateLimit_NoUpCap(dc_change, up_rate, down_rate, hold_active) ==
  IF dc_change < 0
  THEN IF hold_active THEN 0
       ELSE IF dc_change < -down_rate THEN -down_rate ELSE dc_change
  ELSE dc_change

\* Variant: the cooldown hold is not consulted.
RateLimit_IgnoreHold(dc_change, up_rate, down_rate, hold_active) ==
  IF dc_change > up_rate THEN up_rate
  ELSE IF dc_change < 0
       THEN IF dc_change < -down_rate THEN -down_rate ELSE dc_change
       ELSE dc_change

\* Variant: the downward step is not limited.
RateLimit_NoDownCap(dc_change, up_rate, down_rate, hold_active) ==
  IF dc_change > up_rate THEN up_rate
  ELSE IF dc_change < 0
       THEN IF hold_active THEN 0 ELSE dc_change
       ELSE dc_change

\* thermal.c:298-306
RateLimit(dc_change, up_rate, down_rate, hold_active) ==
  IF dc_change > up_rate THEN up_rate
  ELSE IF dc_change < 0
       THEN IF hold_active THEN 0
            ELSE IF dc_change < -down_rate THEN -down_rate ELSE dc_change
       ELSE dc_change

\* thermal.c:308-312
BoundedDuty(last_duty_cycle, dc_change) ==
  LET dc_new == last_duty_cycle + dc_change
  IN  IF dc_new < 0 THEN 0
      ELSE IF dc_new > DutyScale THEN DutyScale ELSE dc_new

\* Variant: only a rise of the duty restarts the count.
StableCount_ResetOnRise(stable_cycles, dc_new, last_duty_cycle) ==
  IF dc_new > last_duty_cycle THEN 0 ELSE stable_cycles + 1

\* thermal.c:315-319
StableCount(stable_cycles, dc_new, last_duty_cycle) ==
  IF dc_new = last_duty_cycle THEN stable_cycles + 1 ELSE 0

\* thermal.c:323-325: (time_t) cast truncates the double tunable
HoldAfter(hold_until, dc_new, last_duty_cycle, t, cooldown_hold_sec) ==
  IF dc_new > last_duty_cycle
  THEN t + (cooldown_hold_sec \div HoldScale)
  ELSE hold_until

\* Variant: the new duty is not written back.
PersistDuty_Stale(last_duty_cycle, dc_new) == last_duty_cycle

\* thermal.c:326: the duty persisted for the next cycle
PersistDuty(last_duty_cycle, dc_new) == dc_new

\* ---------------------------------------------------------------- the control cycle
\* thermal.c:133-139
thermal_state_init ==
  [ cpu_temps       |-> [i \in 1..TEMP_HISTORY_SIZE |-> 0],
    ssd_temps       |-> [i \in 1..TEMP_HISTORY_SIZE |-> 0],
    history_index   |-> 0,
    history_count   |-> 0,
    last_duty_cycle |-> 0,
    last_cpu_temp   |-> 0,
    last_ssd_temp   |-> 0,
    stable_cycles   |-> 0,
    hold_until      |-> 0 ]

\* Variant: the write position never moves.
NextIndex_Stuck(history_index) == history_index

\* thermal.c:238
NextIndex(history_index) == (history_index + 1) % TEMP_HISTORY_SIZE

\* The one element of a singleton set.  The stages of a cycle are chained
\* through it so that each stage is computed once.
Only(S) == CHOOSE x \in S : TRUE

\* thermal.c:222-260: read the sensors, push the samples into the ring
\* buffer, smooth, take the trends and classify each source.
Measure(c, s, file, dev) ==
  LET th == c.thermal
      cpu_temp == thermal_read_cpu_temp(file)
      max_ssd_temp == max_ssd_temp_of(dev)
      \* 236-241
      cpu_temps == [s.cpu_temps EXCEPT ![s.history_index + 1] = cpu_temp]
      ssd_temps == [s.ssd_temps EXCEPT ![s.history_index + 1] = max_ssd_temp]
      history_index == NextIndex(s.history_index)
      history_count == IF s.history_count < TEMP_HISTORY_SIZE
                       THEN s.history_count + 1 ELSE s.history_count
      \* 244-249
      cpu_avg == calculate_moving_average(cpu_temps, history_count)
      ssd_avg == calculate_moving_average_int(ssd_temps, history_count)
      cpu_trend == calculate_temp_trend(cpu_temps, history_count)
      ssd_trend == calculate_temp_trend_int(ssd_temps, history_count)
      \* 252-253
      cpu_is_heating == cpu_trend > th.trend_heat_c
      ssd_is_heating == ssd_trend > th.trend_heat_c
      \* 256-257
      dc_cpu_target == config_temp_to_dc_with_hysteresis(c.fan, cpu_avg, th.hysteresis_c, cpu_is_heating)
      dc_ssd_target == config_temp_to_dc_with_hysteresis(c.fan_ssd, ssd_avg * TempScale, th.hysteresis_c, ssd_is_heating)
  IN  [ cpu_temp |-> cpu_temp, max_ssd_temp |-> max_ssd_temp,
        cpu_temps |-> cpu_temps, ssd_temps |-> ssd_temps,
        history_index |-> history_index, history_count |-> history_count,
        cpu_avg |-> cpu_avg, ssd_avg |-> ssd_avg,
        cpu_trend |-> cpu_trend, ssd_trend |-> ssd_trend,
        cpu_is_heating |-> cpu_is_heating, ssd_is_heating |-> ssd_is_heating,
        dc_cpu_target |-> dc_cpu_target, dc_ssd_target |-> dc_ssd_target,
        \* 260
        dc_target0 |-> HigherTarget(dc_cpu_target, dc_ssd_target) ]

\* thermal.c:262-312: dead-band, rate limiting, cooldown hold, bounds.
\* m: the measurements of this cycle.
Regulate(c, s, t, m) ==
  LET th == c.thermal
      \* 264-266
      temp_change_cpu == m.cpu_avg - s.last_cpu_temp
      temp_change_ssd == m.ssd_avg - s.last_ssd_temp
      max_temp_change == IF temp_change_cpu > temp_change_ssd * TempScale
                         THEN temp_change_cpu ELSE temp_change_ssd * TempScale
      \* 269-275
      skip_adjustment == SkipAdjustment(th, s.stable_cycles, max_temp_change, m.dc_target0, s.last_duty_cycle)
      dc_target == IF skip_adjustment THEN s.last_duty_cycle ELSE m.dc_target0
      \* 278-296
      heat_trend == IF m.cpu_trend > m.ssd_trend THEN m.cpu_trend ELSE m.ssd_trend
      up_rate == UpRate(th, heat_trend)
      down_rate == th.down_rate_per_cycle
      hold_active == HoldActive(s.hold_until, t)
      \* 298-306
      dc_change == RateLimit(dc_target - s.last_duty_cycle, up_rate, down_rate, hold_active)
  IN  [ skip_adjustment |-> skip_adjustment, dc_target |-> dc_target,
        up_rate |-> up_rate, hold_active |-> hold_active,
        dc_change |-> dc_change,
        \* 308-312
        dc_new |-> BoundedDuty(s.last_duty_cycle, dc_change) ]

\* thermal.c:314-328, 370: bookkeeping, persisted state and return value.
\* The result holds the state after the call (state), the returned duty
\* (ret), the locals of the call and the state before it (prev).
Conclude(c, s, t, m, d) ==
  [ state |-> [ cpu_temps       |-> m.cpu_temps,
                ssd_temps       |-> m.ssd_temps,
                history_index   |-> m.history_index,
                history_count   |-> m.history_count,
                last_duty_cycle |-> PersistDuty(s.last_duty_cycle, d.dc_new),
                last_cpu_temp   |-> m.cpu_avg,
                last_ssd_temp   |-> m.ssd_avg,
                stable_cycles   |-> StableCount(s.stable_cycles, d.dc_new, s.last_duty_cycle),
                hold_until      |-> HoldAfter(s.hold_until, d.dc_new, s.last_duty_cycle, t, c.thermal.cooldown_hold_sec) ],
    ret |-> d.dc_new, ran |-> TRUE, now |-> t,
    cpu_temp |-> m.cpu_temp, max_ssd_temp |-> m.max_ssd_temp,
    cpu_avg |-> m.cpu_avg, ssd_avg |-> m.ssd_avg,
    cpu_trend |-> m.cpu_trend, ssd_trend |-> m.ssd_trend,
    cpu_is_heating |-> m.cpu_is_heating, ssd_is_heating |-> m.ssd_is_heating,
    dc_cpu_target |-> m.dc_cpu_target, dc_ssd_target |-> m.dc_ssd_target,
    dc_target0 |-> m.dc_target0,
    skip_adjustment |-> d.skip_adjustment, dc_target |-> d.dc_target,
    up_rate |-> d.up_rate, hold_active |-> d.hold_active,
    dc_change |-> d.dc_change, prev |-> s ]

\* thermal.c:217-219: fan disabled, nothing is read or written
Disabled(s, t) ==
  [ state |-> s, ret |-> 0, ran |-> FALSE, now |-> t,
    cpu_temp |-> 0, max_ssd_temp |-> 0,
    cpu_avg |-> 0, ssd_avg |-> 0, cpu_trend |-> 0, ssd_trend |-> 0,
    cpu_is_heating |-> FALSE, ssd_is_heating |-> FALSE,
    dc_cpu_target |-> 0, dc_ssd_target |-> 0, dc_target0 |-> 0,
    skip_adjustment |-> FALSE, dc_target |-> 0, up_rate |-> 0,
    hold_active |-> FALSE, dc_change |-> 0, prev |-> s ]

\* thermal.c:216-371.  c: config_t, s: thermal_state_t, t: time(NULL),
\* file: content of the thermal zone file, dev: per-device smartctl result.
thermal_calculate_duty_cycle_smart(c, s, t, file, dev) ==
  IF c.fan_enabled = 0
  THEN Disabled(s, t)
  ELSE Only({ Only({ Conclude(c, s, t, m, d) : d \in {Regulate(c, s, t, m)} })
              : m \in {Measure(c, s, file, dev)} })

\* ---------------------------------------------------------------- config_load
\* config_load as far as cfg->thermal goes.  Values are in thousandths.
\* The file is given as the results of parse_line (config.c:31-61), line by
\* line: a section header or a key-value pair; the environment as what
\* getenv returns for each name.

\* thermal_tunables_t (config.h:21-40)
ThermalFields ==
  { "hysteresis_c", "deadband_c", "trend_heat_c", "trend_fast_heat_c",
    "max_dc_change_per_cycle", "min_effective_dc", "up_rate_base_per_cycle",
    "up_rate_trend_gain", "up_rate_max_per_cycle", "down_rate_per_cycle",
    "cooldown_hold_sec" }

\* config.c:81-91 / 125-134: the fields config_load gives a default
BuiltIn ==
  [ hysteresis_c            |-> 3000,
    deadband_c              |-> 1500,
    trend_heat_c            |-> 300,
    trend_fast_heat_c       |-> 1000,
    max_dc_change_per_cycle |-> 100,
    up_rate_base_per_cycle  |-> 70,
    up_rate_trend_gain      |-> 200,
    up_rate_max_per_cycle   |-> 300,
    down_rate_per_cycle     |-> 50,
    cooldown_hold_sec       |-> 20000 ]

\* config.c:151-160: the keys of the [thermal] section and their fields
KeyField ==
  [ hysteresis         |-> "hysteresis_c",
    deadband           |-> "deadband_c",
    trend_heat         |-> "trend_heat_c",
    trend_fast_heat    |-> "trend_fast_heat_c",
    max_dc_change      |-> "max_dc_change_per_cycle",
    up_rate_base       |-> "up_rate_base_per_cycle",
    up_rate_trend_gain |-> "up_rate_trend_gain",
    up_rate_max        |-> "up_rate_max_per_cycle",
    down_rate          |-> "down_rate_per_cycle",
    cooldown_hold_sec  |-> "cooldown_hold_sec" ]

\* config.c:94-103 / 168-177: the fields with an environment override
EnvOf ==
  [ hysteresis_c            |-> "RADXA_HYSTERESIS_C",
    deadband_c              |-> "RADXA_DEADBAND_C",
    trend_heat_c            |-> "RADXA_TREND_HEAT_C",
    trend_fast_heat_c       |-> "RADXA_TREND_FAST_HEAT_C",
    max_dc_change_per_cycle |-> "RADXA_MAX_DC_CHANGE",
    up_rate_base_per_cycle  |-> "RADXA_UP_RATE_BASE",
    up_rate_trend_gain      |-> "RADXA_UP_RATE_TREND_GAIN",
    up_rate_max_per_cycle   |-> "RADXA_UP_RATE_MAX",
    down_rate_per_cycle     |-> "RADXA_DOWN_RATE",
    cooldown_hold_sec       |-> "RADXA_COOLDOWN_HOLD_SEC" ]

\* strtod(text, &endp) on the texts used here: the value, and whether endp
\* moved past the start of the text
strtod(text) ==
  CASE text = "2.5"  -> [val |-> 2500, moved |-> TRUE]
    [] text = "1.25" -> [val |-> 1250, moved |-> TRUE]
    [] text = "7"    -> [val |-> 7000, moved |-> TRUE]
    [] text = "4x"   -> [val |-> 4000, moved |-> TRUE]
    [] OTHER         -> [val |-> 0, moved |-> FALSE]

\* config.c:12-20
read_env_float(env, name, fallback) ==
  IF env[name].set /\ env[name].text # "" /\ strtod(env[name].text).moved
  THEN strtod(env[name].text).val
  ELSE fallback

\* config.c:136-163: the lines in order; `section` is the last header seen
RECURSIVE ReadLines(_, _, _)
ReadLines(lines, section, th) ==
  IF lines = <<>> THEN th
  ELSE LET l == Head(lines)
       IN  IF l.kind = "section"
           THEN ReadLines(Tail(lines), l.name, th)
           ELSE IF section = "thermal" /\ l.key \in DOMAIN KeyField
                THEN ReadLines(Tail(lines), section,
                               [th EXCEPT ![KeyField[l.key]] = strtod(l.value).val])
                ELSE ReadLines(Tail(lines), section, th)

\* config.c:63-179.  th: cfg->thermal as main() hands it over (an
\* uninitialised local, config.c:250), file: the config file, env: the
\* environment.  The result is cfg->thermal after the call.
config_load(th, file, env) ==
  LET defaults == [f \in ThermalFields |->
                     IF f \in DOMAIN BuiltIn THEN BuiltIn[f] ELSE th[f]]
      fromfile == IF file.exists THEN ReadLines(file.lines, "", defaults)
                  ELSE defaults
  IN  [f \in ThermalFields |->
         IF f \in DOMAIN EnvOf
         THEN read_env_float(env, EnvOf[f], fromfile[f])
         ELSE fromfile[f]]

\* the names getenv is asked for, and the one the README adds
EnvNames == {EnvOf[f] : f \in DOMAIN EnvOf} \cup {"RADXA_MIN_EFFECTIVE_DC"}

\* an environment with none of the names set
NoEnv == [n \in EnvNames |-> [set |-> FALSE, text |-> ""]]

\* what an uninitialised cfg->thermal may hold
StackValues == {0, 777}

\* `boot` once main() is past config_load with no file and no overrides
Booted ==
  [pc |-> "loaded", env |-> NoEnv, file |-> [exists |-> FALSE, lines |-> <<>>],
   thermal |-> config_load([f \in ThermalFields |-> 0],
                           [exists |-> FALSE, lines |-> <<>>], NoEnv)]

\* ---------------------------------------------------------------- fan actuator
\* fan.h:12  PWM_PERIOD_US, fan.c:66  pwm_period_ns = PWM_PERIOD_US * 1000
PWM_PERIOD_US == 40

\* fan.h:13  GPIO_PERIOD_S 0.00004f, assigned to the double period_s
\* (fan.c:37), here in nanoseconds.  The float nearest to 0.00004 is
\* 0.0000399999989895..., i.e. 39999.99899 ns; the whole nanoseconds are
\* kept.  For every duty that is a multiple of 1/DutyScale the microsecond
\* counts computed below are those of the full value.
GPIO_PERIOD_S == 39999

\* fan.c:229  high_time = duty_cycle * period_s   (in 1/DutyScale ns)
high_time(duty, period_s) == duty * period_s

\* fan.c:230  low_time = (1.0 - duty_cycle) * period_s   (in 1/DutyScale ns)
low_time(duty, period_s) == (DutyScale - duty) * period_s

\* fan.c:227,233,236  (unsigned int)(time * 1000000.0): whole microseconds
UsleepArg(time) == time \div (DutyScale * 1000)

\* Variant: the requested duty is stored as given.
ClampDuty_None(duty) == duty

\* fan.c:171-172
ClampDuty(duty) ==
  IF duty < 0 THEN 0 ELSE IF duty > DutyScale THEN DutyScale ELSE duty

\* Variant: the product is rounded to the nearest nanosecond.
DutyNs_Rounded(pwm_period_ns, duty) ==
  (2 * pwm_period_ns * duty + DutyScale) \div (2 * DutyScale)

\* fan.c:185  (int)((double)pwm_period_ns * duty)
DutyNs(pwm_period_ns, duty) == (pwm_period_ns * duty) \div DutyScale

\* fan_t after a successful fan_init (fan.c:23-165); backend = 1 when
\* HARDWARE_PWM=1, else 0 (software PWM on a GPIO line)
fan_init(backend) ==
  [ use_hardware_pwm |-> backend,
    pwm_period_ns    |-> IF backend = 1 THEN PWM_PERIOD_US * 1000 ELSE 0,
    period_s         |-> GPIO_PERIOD_S,
    duty_cycle       |-> 0,
    running          |-> 1 ]

\* /sys/class/pwm/pwmchipN/pwm0 as fan_init finds it after the export
\* (fan.c:50-56): a freshly exported channel (period 0) or one that something
\* else configured before.  An attribute holds what was last written to it;
\* the kernel's own checks on a written value are not part of this program.
SysfsNodes ==
  { [period |-> p, enable |-> 0, duty_cycle |-> 0] : p \in {0, PWM_PERIOD_US * 1000} }

\* the node record of a fan on the software backend, which has no such node
NoNode == [period |-> 0, enable |-> 0, duty_cycle |-> 0]

\* fprintf and fclose on a stream from fopen(path, mode): the text reaches
\* the file only when the stream was opened for writing
StreamWrite(mode, old, new) == IF mode = "w" THEN new ELSE old

\* fan.c:58-77: the node after a successful fan_init.  The period file is
\* opened with "r" (fan.c:61), the enable file with "w" (fan.c:73);
\* enable_ok: whether that second fopen succeeds (fan.c:74 skips the write
\* otherwise and fan_init still returns 0).
fan_init_sysfs(node, enable_ok) ==
  LET n1 == [node EXCEPT !.period = StreamWrite("r", node.period, PWM_PERIOD_US * 1000)]
  IN  IF enable_ok
      THEN [n1 EXCEPT !.enable = StreamWrite("w", n1.enable, 1)]
      ELSE n1

\* Variant: the duty is stored only after the node has been opened.
fan_set_duty_cycle_StoreAfterOpen(f, node, duty, node_ok) ==
  LET d == ClampDuty(duty)
  IN  IF f.use_hardware_pwm = 1 /\ ~node_ok
      THEN [fan |-> f, node |-> node, ret |-> -1]
      ELSE [fan |-> [f EXCEPT !.duty_cycle = d],
            node |-> IF f.use_hardware_pwm = 1
                     THEN [node EXCEPT !.duty_cycle = DutyNs(f.pwm_period_ns, d)]
                     ELSE node,
            ret |-> 0]

\* Variant: a failed fopen goes unreported.
fan_set_duty_cycle_FailureUnreported(f, node, duty, node_ok) ==
  LET d == ClampDuty(duty)
      f1 == [f EXCEPT !.duty_cycle = d]
  IN  IF f.use_hardware_pwm = 1 /\ node_ok
      THEN [fan |-> f1,
            node |-> [node EXCEPT !.duty_cycle = DutyNs(f.pwm_period_ns, d)],
            ret |-> 0]
      ELSE [fan |-> f1, node |-> node, ret |-> 0]

\* Variant: the argument is taken as a change of the stored duty.
fan_set_duty_cycle_Relative(f, node, duty, node_ok) ==
  LET d == ClampDuty(f.duty_cycle + duty)
      f1 == [f EXCEPT !.duty_cycle = d]
  IN  IF f.use_hardware_pwm = 1
      THEN IF node_ok
           THEN [fan |-> f1,
                 node |-> [node EXCEPT !.duty_cycle = DutyNs(f.pwm_period_ns, d)],
                 ret |-> 0]
           ELSE [fan |-> f1, node |-> node, ret |-> -1]
      ELSE [fan |-> f1, node |-> node, ret |-> 0]

\* fan.c:167-211.  f: fan_t, node: the sysfs pwm0 node, duty: the argument,
\* node_ok: whether fopen(".../duty_cycle", "w") succeeds.  The result holds
\* fan_t and the node after the call and the return value.
fan_set_duty_cycle(f, node, duty, node_ok) ==
  LET d == ClampDuty(duty)
      f1 == [f EXCEPT !.duty_cycle = d]
  IN  IF f.use_hardware_pwm = 1
      THEN IF node_ok
           THEN [fan |-> f1,
                 node |-> [node EXCEPT !.duty_cycle = DutyNs(f.pwm_period_ns, d)],
                 ret |-> 0]
           ELSE [fan |-> f1, node |-> node, ret |-> -1]
      ELSE [fan |-> f1, node |-> node, ret |-> 0]

\* config.c:351  if (dc != last_dc)
NeedsForward(dc, last_dc) == dc # last_dc

\* config.c:351-356: the control loop hands the engine's duty to the fan.
\* The result holds fan_t, the node, main's last_dc and what the call did.
Forward(f, node, last_dc, dc, node_ok) ==
  IF NeedsForward(dc, last_dc)
  THEN LET r == fan_set_duty_cycle(f, node, dc, node_ok)
       IN  [fan |-> r.fan, node |-> r.node, last_dc |-> dc,
            call |-> [made |-> TRUE, arg |-> dc, ret |-> r.ret, node_ok |-> node_ok]]
  ELSE [fan |-> f, node |-> node, last_dc |-> last_dc,
        call |-> [made |-> FALSE, arg |-> dc, ret |-> 0, node_ok |-> node_ok]]

\* ---------------------------------------------------------------- state
VARIABLES
  cfg,            \* config_t filled by config_load, read-only afterwards
  thermal_state,  \* thermal_state_t owned by main()
  now,            \* wall clock (seconds) as last returned by time(NULL)
  cycles,         \* control cycles executed so far
  last,           \* result and locals of the most recent control cycle
  increased_at,   \* time of the most recent cycle that raised the duty, 0 if none
  peak,           \* highest raw CPU / storage-device reading offered so far
  input,          \* what the sensors offered in the most recent cycle
  samples,        \* the samples ingested by the most recent cycles, oldest first
  unchanged_run,  \* how many of the most recent cycles in a row returned the
                  \* duty the cycle before them had returned
  fan,            \* fan_t owned by main()
  pwm_node,       \* /sys/class/pwm/pwmchipN/pwm0: what the hardware runs with
  last_dc,        \* main()'s local last_dc
  fan_call,       \* what the most recent control cycle did with the fan
  thread,         \* gpio_pwm_thread: position, loaded duty values, usleep
                  \* arguments (microseconds), GPIO line
  running,        \* main.c's static volatile int running
  main_pc,        \* where main() is: "loop", "stop", "cleanup", "wait", "done"
  gpio,           \* the GPIO chip handle and line request held by fan_t
  repeated,       \* set by a fan_set_duty_cycle call that repeats the call
                  \* before it: the actuator as this second call found it
  boot            \* config_load: the environment and file it reads, and
                  \* cfg->thermal before ("start") and after ("loaded") it

vars == <<cfg, thermal_state, now, cycles, last, increased_at, peak, input,
          samples, unchanged_run, fan, pwm_node, last_dc, fan_call, thread,
          running, main_pc, gpio, repeated, boot>>

\* what only the shutdown path of main() and fan_cleanup change
main_vars == <<running, main_pc, gpio>>

engine_vars == <<cfg, boot, thermal_state, now, cycles, last, increased_at, peak,
                 input, samples, unchanged_run>>

\* time(NULL) at program start
StartTime == 100

\* readings offered to the engine: thermal zone file contents (millidegrees)
\* and per-device smartctl temperatures (degrees, 0 = none)
CpuFiles == {Unavailable, 53000, 76000}
SsdDevs == {<<0, 0, 0, 0>>, <<0, 47, 0, 0>>, <<58, 30, 0, 0>>}
\* seconds between two calls of time(NULL): sleep(1) plus the sensor reads
Steps == {1, 2}
\* reduced readings for long runs
DeepReadings == { <<Unavailable, <<0, 0, 0, 0>>>>,
                  <<53000, <<0, 0, 0, 0>>>>,
                  <<76000, <<58, 30, 0, 0>>>> }
DeepConfigs == {DefaultConfig, AdaptiveConfig}

\* value of `last` before the first cycle
NoCycle == Disabled(thermal_state_init, StartTime)

RECURSIVE MaxOfSeq(_)
MaxOfSeq(sq) == IF sq = <<>> THEN 0 ELSE Max2(Head(sq), MaxOfSeq(Tail(sq)))

\* the last n elements of a sequence
LastN(sq, n) ==
  IF Len(sq) <= n THEN sq ELSE SubSeq(sq, Len(sq) - n + 1, Len(sq))

\* gpio_pwm_thread right after pthread_create (fan.c:150): about to test
\* fan->running; the line was requested as an inactive output (fan.c:112-113)
ThreadStart ==
  [pc |-> "test", d_check |-> 0, d_high |-> 0, d_low |-> 0, line |-> 0,
   high_us |-> 0, low_us |-> 0]

\* value of `repeated` after a call that does not repeat the one before it
NoRepeat == [repeat |-> FALSE]

\* `repeated` after a call with this argument and this fopen outcome, made
\* when the actuator was (f, node) and the call before it was `call`
RepeatOf(call, f, node, duty, node_ok) ==
  IF call.made /\ call.arg = duty /\ call.node_ok = node_ok
  THEN [repeat |-> TRUE, fan |-> f, node |-> node]
  ELSE NoRepeat

\* main() up to the control loop: config_load, thermal_state_init, fan_init,
\* signal(), last_dc = -1.0 (config.c:270-347)
InitRest(configs, backends) ==
  /\ cfg \in configs
  /\ thermal_state = thermal_state_init
  /\ now = StartTime
  /\ cycles = 0
  /\ last = NoCycle
  /\ increased_at = 0
  /\ peak = [cpu |-> 0, ssd |-> 0]
  /\ input = [file |-> Unavailable, dev |-> <<0, 0, 0, 0>>]
  /\ samples = <<>>
  /\ unchanged_run = 0
  /\ \E backend \in backends :
       /\ fan = fan_init(backend)
       /\ pwm_node \in IF backend = 1
                       THEN { fan_init_sysfs(n, ok) : n \in SysfsNodes, ok \in BOOLEAN }
                       ELSE {NoNode}
       /\ gpio = [chip_open |-> backend = 0, line_requested |-> backend = 0]
  /\ last_dc = -DutyScale
  /\ fan_call = [made |-> FALSE, arg |-> 0, ret |-> 0, node_ok |-> TRUE]
  /\ thread = ThreadStart
  /\ running = 1
  /\ main_pc = "loop"
  /\ repeated = NoRepeat

\* the same with config_load done: no config file, no overrides
InitWith(configs, backends) ==
  /\ InitRest(configs, backends)
  /\ boot = Booted

Init == InitWith(Configs, {0})

\* One iteration of the control loop (config.c:348-359): the engine call with
\* this cycle's clock and sensor values, then the hand-over to the fan.
ControlCycle(file, dev, step, node_ok) ==
  /\ main_pc = "loop"
  /\ running = 1
  /\ \E t \in {now + step} :
     \E r \in {thermal_calculate_duty_cycle_smart(cfg, thermal_state, t, file, dev)} :
     \E f \in {Forward(fan, pwm_node, last_dc, r.ret, node_ok)} :
      /\ thermal_state' = r.state
      /\ now' = t
      /\ cycles' = cycles + 1
      /\ last' = r
      /\ increased_at' = IF r.ret > thermal_state.last_duty_cycle THEN t ELSE increased_at
      /\ peak' = [cpu |-> Max2(peak.cpu, thermal_read_cpu_temp(file)),
                  ssd |-> Max2(peak.ssd, MaxOfSeq(dev))]
      /\ input' = [file |-> file, dev |-> dev]
      /\ samples' = LastN(Append(samples, [cpu |-> r.cpu_temp, ssd |-> r.max_ssd_temp]),
                          TEMP_HISTORY_SIZE)
      /\ unchanged_run' = IF r.ret = last.ret THEN unchanged_run + 1 ELSE 0
      /\ fan' = f.fan
      /\ pwm_node' = f.node
      /\ last_dc' = f.last_dc
      /\ fan_call' = f.call
      /\ repeated' = NoRepeat
      /\ UNCHANGED <<cfg, boot, thread, main_vars>>

Cycle ==
  /\ cycles < MaxCycles
  /\ \E file \in CpuFiles, dev \in SsdDevs, step \in Steps :
       ControlCycle(file, dev, step, TRUE)

Next == Cycle

Spec == Init /\ [][Next]_vars

\* Long runs: one-second cycles over the reduced readings.
DeepInit == InitWith(DeepConfigs, {0})

DeepCycle ==
  /\ cycles < MaxDeepCycles
  /\ \E rd \in DeepReadings : ControlCycle(rd[1], rd[2], 1, TRUE)

DeepNext == DeepCycle

DeepSpec == DeepInit /\ [][DeepNext]_vars

\* Silent sensors.  After MaxWarm cycles with arbitrary readings the thermal
\* zone file is unreadable and no device reports a temperature, forever; the
\* control loop keeps running once per second.  To keep the state space
\* finite the state is reduced after each silent cycle without changing any
\* later decision of the engine:
\*   - the clock is rebased: `now` stays put and the stored times move back by
\*     the second that passed (thermal.c:296 only compares hold_until with now
\*     and with 0, so a stored time never drops below 1);
\*   - stable_cycles stops at StableSaturation (thermal.c:270 only tests > 5,
\*     and so does unchanged_run.
LiveInit == InitWith(Configs, {0})

Rebased(time, by) == IF time = 0 THEN 0 ELSE Max2(time - by, 1)

Reduced(s, by) ==
  [s EXCEPT !.hold_until = Rebased(@, by),
            !.stable_cycles = IF @ > StableSaturation THEN StableSaturation ELSE @]

WarmCycle ==
  /\ cycles < MaxWarm
  /\ \E rd \in DeepReadings : ControlCycle(rd[1], rd[2], 1, TRUE)

\* One iteration of the control loop with the state reduced as described
\* above; `now` stands for the time of every such iteration.
SteadyCycle(file, dev) ==
  /\ main_pc = "loop"
  /\ running = 1
  /\ \E r \in {thermal_calculate_duty_cycle_smart(cfg, thermal_state, now + 1, file, dev)} :
     \E f \in {Forward(fan, pwm_node, last_dc, r.ret, TRUE)} :
         /\ thermal_state' = Reduced(r.state, 1)
         /\ last' = [r EXCEPT !.state = Reduced(r.state, 1),
                              !.prev = Reduced(r.prev, 1),
                              !.now = now]
         /\ increased_at' = IF r.ret > thermal_state.last_duty_cycle
                            THEN now ELSE Rebased(increased_at, 1)
         /\ peak' = [cpu |-> Max2(peak.cpu, thermal_read_cpu_temp(file)),
                     ssd |-> Max2(peak.ssd, MaxOfSeq(dev))]
         /\ input' = [file |-> file, dev |-> dev]
         /\ samples' = LastN(Append(samples, [cpu |-> r.cpu_temp, ssd |-> r.max_ssd_temp]),
                             TEMP_HISTORY_SIZE)
         /\ unchanged_run' = IF r.ret = last.ret
                              THEN Min2(unchanged_run + 1, StableSaturation)
                              ELSE 0
         /\ fan' = f.fan
         /\ pwm_node' = f.node
         /\ last_dc' = f.last_dc
         /\ fan_call' = f.call
         /\ repeated' = NoRepeat
         /\ UNCHANGED <<cfg, boot, now, cycles, thread, main_vars>>

SilentCycle ==
  /\ cycles >= MaxWarm
  /\ SteadyCycle(Unavailable, <<0, 0, 0, 0>>)

LiveNext == WarmCycle \/ SilentCycle

\* while (running) { ...; sleep(1); }: the loop always takes its next turn
LiveSpec == LiveInit /\ [][LiveNext]_vars /\ WF_vars(LiveNext)

\* Steady ramps.  The first cycle reads a start value; from then on every
\* cycle reads a CPU temperature (and, when a device is present, a device
\* temperature) that differs from the previous one by a whole number of
\* degrees, always in the same direction.
RampStarts == { <<50000, <<40, 0, 0, 0>>>>, <<50000, <<0, 0, 0, 0>>>> }
RampDeltas == {1, 3}

RampInit == InitWith({DefaultConfig}, {0})

RampDirs ==
  IF Len(samples) < 2 THEN {1, -1}
  ELSE IF samples[Len(samples)].cpu > samples[Len(samples) - 1].cpu THEN {1} ELSE {-1}

RampCycle ==
  /\ cycles < MaxRampCycles
  /\ IF cycles = 0
     THEN \E st \in RampStarts : ControlCycle(st[1], st[2], 1, TRUE)
     ELSE \E dir \in RampDirs, d \in RampDeltas :
            ControlCycle(input.file + dir * d * 1000,
                         [input.dev EXCEPT ![1] = IF @ = 0 THEN 0 ELSE @ + dir * d],
                         1, TRUE)

RampNext == RampCycle

RampSpec == RampInit /\ [][RampNext]_vars

\* Sustained heat.  The CPU temperature follows a profile of levels: it
\* holds a level for any number of cycles and then moves to the next one;
\* the last level lies above lv3 and is held forever.  No storage device
\* is present.  Cycles at the last level reduce the state as in LiveSpec.
HeatLevels == <<76000, 65000, 79000>>

\* the level the sensor is at (0 before the first cycle)
LevelNow ==
  IF input.file = Unavailable THEN 0
  ELSE CHOOSE i \in 1..Len(HeatLevels) : HeatLevels[i] = input.file

HeatInit == InitWith({DefaultConfig}, {0})

HeatCycle ==
  /\ cycles < MaxHeatCycles
  /\ LevelNow < Len(HeatLevels)
  /\ \E i \in {LevelNow, LevelNow + 1} \cap 1..(Len(HeatLevels) - 1) :
       ControlCycle(HeatLevels[i], <<0, 0, 0, 0>>, 1, TRUE)

SustainedCycle ==
  /\ LevelNow >= 1
  /\ SteadyCycle(HeatLevels[Len(HeatLevels)], <<0, 0, 0, 0>>)

HeatNext == HeatCycle \/ SustainedCycle

\* while (running) { ...; sleep(1); }: the loop always takes its next turn
HeatSpec == HeatInit /\ [][HeatNext]_vars /\ WF_vars(HeatNext)

\* The fan actuator on its own: after fan_init, any caller hands any duty
\* to fan_set_duty_cycle while (software backend) gpio_pwm_thread runs.
\*
\* fan->duty_cycle is written by the caller and read by the thread without
\* synchronisation.  It is a naturally aligned 8-byte double; on the packaged
\* arm64 build a store or load of it is a single instruction, so a racing
\* load returns the value before or the value after a store.  How many loads
\* one iteration performs depends on the build: the three reads at fan.c:225,
\* 229 and 230 have no call between them, so a load may be taken afresh or
\* reuse the value of the previous read.
DutyArgs == {-Pct(50), 0, 3, Pct(30), Pct(30) + 1, DutyScale, Pct(150)}

\* Variant: only an exact 0 counts as zero.
NearZero_ExactZero(duty) == duty = 0

\* fan.c:225  duty_cycle <= 0.001
NearZero(duty) == duty * 1000 <= DutyScale

ActuatorInit == InitWith({DefaultConfig}, {0, 1})

\* a call of fan_set_duty_cycle (fan.c:167-211)
SetDutyCall ==
  \E duty \in DutyArgs, node_ok \in BOOLEAN :
  \E r \in {fan_set_duty_cycle(fan, pwm_node, duty, node_ok)} :
      /\ fan' = r.fan
      /\ pwm_node' = r.node
      /\ fan_call' = [made |-> TRUE, arg |-> duty, ret |-> r.ret, node_ok |-> node_ok]
      /\ repeated' = RepeatOf(fan_call, fan, pwm_node, duty, node_ok)
      /\ UNCHANGED <<engine_vars, last_dc, thread, main_vars>>

\* gpiod_line_request_set_value(request, line, value) (fan.c:226,232,235):
\* the levels the line can have afterwards.  Once fan_cleanup has released
\* the request (fan.c:249) the call works on freed memory and a closed
\* descriptor: it may still reach the line or fail without effect.
set_value(line, value) ==
  IF gpio.line_requested THEN {value} ELSE {line, value}

\* Variant: the loop test does not look at fan->running.
PwmTest_IgnoresFlag ==
  /\ fan.use_hardware_pwm = 0
  /\ thread.pc = "test"
  /\ thread' = [thread EXCEPT !.pc = "check"]
  /\ UNCHANGED <<engine_vars, fan, pwm_node, last_dc, fan_call, main_vars, repeated>>

\* fan.c:220  while (fan->running)
PwmTest ==
  /\ fan.use_hardware_pwm = 0
  /\ thread.pc = "test"
  /\ thread' = [thread EXCEPT !.pc = IF fan.running = 1 THEN "check" ELSE "exit"]
  /\ UNCHANGED <<engine_vars, fan, pwm_node, last_dc, fan_call, main_vars, repeated>>

\* fan.c:225-226  zero test; a zero duty drives the line inactive
PwmCheck ==
  /\ thread.pc = "check"
  /\ \E d \in {fan.duty_cycle} :
       IF NearZero(d)
       THEN \E v \in set_value(thread.line, 0) :
              thread' = [thread EXCEPT !.d_check = d, !.line = v, !.pc = "sleep_off"]
       ELSE thread' = [thread EXCEPT !.d_check = d, !.pc = "load_high"]
  /\ UNCHANGED <<engine_vars, fan, pwm_node, last_dc, fan_call, main_vars, repeated>>

\* fan.c:227  usleep(period) returns
PwmSleepOff ==
  /\ thread.pc = "sleep_off"
  /\ thread' = [thread EXCEPT !.pc = "test"]
  /\ UNCHANGED <<engine_vars, fan, pwm_node, last_dc, fan_call, main_vars, repeated>>

\* fan.c:229  high_time = duty_cycle * period_s; high_us is what line 233
\* hands to usleep
PwmLoadHigh ==
  /\ thread.pc = "load_high"
  /\ \E d \in {thread.d_check, fan.duty_cycle} :
       thread' = [thread EXCEPT !.d_high = d,
                                !.high_us = UsleepArg(high_time(d, fan.period_s)),
                                !.pc = "load_low"]
  /\ UNCHANGED <<engine_vars, fan, pwm_node, last_dc, fan_call, main_vars, repeated>>

\* fan.c:230-232  low_time = (1 - duty_cycle) * period_s; line active;
\* low_us is what line 236 hands to usleep
PwmLoadLow ==
  /\ thread.pc = "load_low"
  /\ \E d \in {thread.d_high, fan.duty_cycle} :
     \E v \in set_value(thread.line, 1) :
       thread' = [thread EXCEPT !.d_low = d,
                                !.low_us = UsleepArg(low_time(d, fan.period_s)),
                                !.line = v,
                                !.pc = "sleep_high"]
  /\ UNCHANGED <<engine_vars, fan, pwm_node, last_dc, fan_call, main_vars, repeated>>

\* fan.c:233-235  usleep(high_time) returns; line inactive
PwmEndHigh ==
  /\ thread.pc = "sleep_high"
  /\ \E v \in set_value(thread.line, 0) :
       thread' = [thread EXCEPT !.line = v, !.pc = "sleep_low"]
  /\ UNCHANGED <<engine_vars, fan, pwm_node, last_dc, fan_call, main_vars, repeated>>

\* fan.c:236  usleep(low_time) returns
PwmEndLow ==
  /\ thread.pc = "sleep_low"
  /\ thread' = [thread EXCEPT !.pc = "test"]
  /\ UNCHANGED <<engine_vars, fan, pwm_node, last_dc, fan_call, main_vars, repeated>>

\* fan.c:213-241
gpio_pwm_thread ==
  \/ PwmTest
  \/ PwmCheck
  \/ PwmSleepOff
  \/ PwmLoadHigh
  \/ PwmLoadLow
  \/ PwmEndHigh
  \/ PwmEndLow

ActuatorNext == SetDutyCall \/ gpio_pwm_thread

ActuatorSpec == ActuatorInit /\ [][ActuatorNext]_vars

\* pthread_create started the thread (fan.c:150) and the scheduler keeps
\* running it: every usleep returns and every step it can take is taken
ActuatorFairSpec == ActuatorSpec /\ WF_vars(gpio_pwm_thread)

\* The control loop with a fan on either backend whose sysfs node may or may
\* not open in any given cycle.
LoopInit == InitWith({DefaultConfig}, {0, 1})

LoopCycle ==
  /\ cycles < MaxLoopCycles
  /\ \E rd \in DeepReadings, node_ok \in BOOLEAN :
       ControlCycle(rd[1], rd[2], 1, node_ok)

LoopNext == LoopCycle

LoopSpec == LoopInit /\ [][LoopNext]_vars

\* Shutdown: the control loop on either backend, a SIGINT or SIGTERM at any
\* time, the cleanup at the end of main() and, on the software backend,
\* gpio_pwm_thread running alongside.
StopReadings == { <<Unavailable, <<0, 0, 0, 0>>>>,
                  <<76000, <<58, 30, 0, 0>>>> }

StopInit == InitWith({DefaultConfig}, {0, 1})

StopCycle ==
  /\ cycles < MaxStopCycles
  /\ \E rd \in StopReadings, node_ok \in BOOLEAN :
       ControlCycle(rd[1], rd[2], 1, node_ok)

\* config.c:210-213, installed for SIGINT and SIGTERM (config.c:341-342)
signal_handler ==
  /\ main_pc # "done"
  /\ running' = 0
  /\ UNCHANGED <<engine_vars, fan, pwm_node, last_dc, fan_call, thread,
                 main_pc, gpio, repeated>>

\* config.c:348  while (running) found false
LoopExit ==
  /\ main_pc = "loop"
  /\ running = 0
  /\ main_pc' = "stop"
  /\ UNCHANGED <<engine_vars, fan, pwm_node, last_dc, fan_call, thread,
                 running, gpio, repeated>>

\* config.c:363  the duty main() hands over before the cleanup
StopDuty == 0

\* config.c:363  fan_set_duty_cycle(&fan, 0.0)
StopFan ==
  /\ main_pc = "stop"
  /\ \E node_ok \in BOOLEAN :
     \E r \in {fan_set_duty_cycle(fan, pwm_node, StopDuty, node_ok)} :
       /\ fan' = r.fan
       /\ pwm_node' = r.node
       /\ fan_call' = [made |-> TRUE, arg |-> StopDuty, ret |-> r.ret, node_ok |-> node_ok]
       /\ repeated' = RepeatOf(fan_call, fan, pwm_node, StopDuty, node_ok)
  /\ main_pc' = "cleanup"
  /\ UNCHANGED <<engine_vars, last_dc, thread, running, gpio>>

\* Variant: fan_cleanup leaves the running flag set.
ClearRunning_Kept(f) == f

\* fan.c:244  fan->running = 0
ClearRunning(f) == [f EXCEPT !.running = 0]

\* fan.c:244-245  fan_cleanup up to its usleep(100000)
CleanupFlag ==
  /\ main_pc = "cleanup"
  /\ fan' = ClearRunning(fan)
  /\ main_pc' = "wait"
  /\ UNCHANGED <<engine_vars, pwm_node, last_dc, fan_call, thread,
                 running, gpio, repeated>>

\* fan.c:247-252  after the usleep: the software backend releases the line
\* request and closes the chip
CleanupRelease ==
  /\ main_pc = "wait"
  /\ gpio' = IF fan.use_hardware_pwm = 0 /\ gpio.chip_open
             THEN [chip_open |-> FALSE, line_requested |-> FALSE]
             ELSE gpio
  /\ main_pc' = "done"
  /\ UNCHANGED <<engine_vars, fan, pwm_node, last_dc, fan_call, thread,
                 running, repeated>>

\* fan.c:243-253
fan_cleanup == CleanupFlag \/ CleanupRelease

\* config.c:361-364  main() after the loop
MainShutdown == LoopExit \/ StopFan \/ fan_cleanup

ShutdownNext == StopCycle \/ signal_handler \/ MainShutdown \/ gpio_pwm_thread

\* main() runs on after the loop and the scheduler keeps running the thread
ShutdownSpec ==
  /\ StopInit
  /\ [][ShutdownNext]_vars
  /\ WF_vars(MainShutdown)
  /\ WF_vars(gpio_pwm_thread)

\* config_load on its own: one name of the environment unset, empty,
\* unparsable or a number; no file, or a file that has the matching key in
\* the [thermal] section, elsewhere, twice, or not at all.
EnvTexts == {"", "abc", "2.5", "4x"}

ConfigKeys == DOMAIN KeyField \cup {"min_effective_dc"}

ConfigFiles(key) ==
  { [exists |-> FALSE, lines |-> <<>>],
    [exists |-> TRUE, lines |-> <<>>],
    [exists |-> TRUE, lines |-> << [kind |-> "section", name |-> "thermal"],
                                   [kind |-> "pair", key |-> key, value |-> "1.25"] >>],
    [exists |-> TRUE, lines |-> << [kind |-> "section", name |-> "fan"],
                                   [kind |-> "pair", key |-> key, value |-> "1.25"] >>],
    [exists |-> TRUE, lines |-> << [kind |-> "pair", key |-> key, value |-> "1.25"] >>],
    [exists |-> TRUE, lines |-> << [kind |-> "section", name |-> "thermal"],
                                   [kind |-> "pair", key |-> key, value |-> "1.25"],
                                   [kind |-> "pair", key |-> key, value |-> "7"] >>],
    [exists |-> TRUE, lines |-> << [kind |-> "section", name |-> "thermal"],
                                   [kind |-> "pair", key |-> key, value |-> "1.25"],
                                   [kind |-> "section", name |-> "fan_ssd"],
                                   [kind |-> "pair", key |-> key, value |-> "7"] >>] }

ConfigEnvs ==
  {NoEnv} \cup { [NoEnv EXCEPT ![n] = [set |-> TRUE, text |-> t]] :
                   n \in EnvNames, t \in EnvTexts }

ConfigInit ==
  /\ InitRest({DefaultConfig}, {0})
  /\ \E env \in ConfigEnvs, key \in ConfigKeys, g \in StackValues :
     \E file \in ConfigFiles(key) :
       boot = [pc |-> "start", env |-> env, file |-> file,
               thermal |-> [f \in ThermalFields |-> g]]

\* config.c:270  config_load(&cfg)
LoadConfig ==
  /\ boot.pc = "start"
  /\ boot' = [boot EXCEPT !.pc = "loaded",
                          !.thermal = config_load(boot.thermal, boot.file, boot.env)]
  /\ UNCHANGED <<cfg, thermal_state, now, cycles, last, increased_at, peak,
                 input, samples, unchanged_run, fan, pwm_node, last_dc,
                 fan_call, thread, running, main_pc, gpio, repeated>>

ConfigNext == LoadConfig

ConfigSpec == ConfigInit /\ [][ConfigNext]_vars

\* ---------------------------------------------------------------- properties
\* duty before the most recent cycle
PrevDuty == last.prev.last_duty_cycle

\* The documented step function over thresholds lowered by `shift`.
StepDuty(lv, shift, temp) ==
  IF temp >= lv.lv3 - shift THEN Pct(100)
  ELSE IF temp >= lv.lv2 - shift THEN Pct(75)
  ELSE IF temp >= lv.lv1 - shift THEN Pct(50)
  ELSE IF temp >= lv.lv0 - shift THEN Pct(25)
  ELSE 0

\* C1: after every control cycle the returned duty lies in [0,1] and
\* state.last_duty_cycle equals it; last_duty_cycle is in [0,1] in every state.
C1_DutyWithinUnitRange ==
  /\ thermal_state.last_duty_cycle >= 0
  /\ thermal_state.last_duty_cycle <= DutyScale
  /\ cycles > 0 => /\ last.ret >= 0
                   /\ last.ret <= DutyScale
                   /\ thermal_state.last_duty_cycle = last.ret

\* C1 witness: a cycle raised the duty to a value strictly inside (0,1).
C1_Witness ==
  /\ cycles > 0
  /\ last.ran
  /\ last.ret > PrevDuty
  /\ last.ret < DutyScale
  /\ thermal_state.last_duty_cycle = last.ret

\* C2: in every cycle the duty rises by at most up_rate_max_per_cycle and
\* falls by at most down_rate_per_cycle; when dead-band suppression fires
\* the change is exactly 0.
C2_RateLimitInvariant ==
  (cycles > 0 /\ last.ran) =>
    /\ last.ret - PrevDuty <= cfg.thermal.up_rate_max_per_cycle
    /\ PrevDuty - last.ret <= cfg.thermal.down_rate_per_cycle
    /\ last.skip_adjustment => last.ret = PrevDuty

\* C2 witness: dead-band suppression fired against a target that differs
\* from the previous duty, and the duty did not move.
C2_Witness ==
  /\ cycles > 0
  /\ last.skip_adjustment
  /\ last.dc_target0 # PrevDuty
  /\ last.ret = PrevDuty

\* C3: after a cycle that raised the duty at time t, no later cycle whose
\* time is before t + cooldown_hold_sec returns a duty below its previous
\* duty.
C3_NoDecreaseWithinHold ==
  [][ ( /\ increased_at # 0
        /\ cycles' = cycles + 1
        /\ now' * HoldScale < increased_at * HoldScale + cfg.thermal.cooldown_hold_sec )
      => thermal_state'.last_duty_cycle >= thermal_state.last_duty_cycle ]_vars

\* C4: when a cooldown hold is active (hold_until # 0 and now < hold_until)
\* and the target is below last_duty_cycle, the returned duty equals
\* last_duty_cycle.
C4_HoldKeepsDuty ==
  ( /\ cycles > 0
    /\ last.ran
    /\ last.prev.hold_until # 0
    /\ last.now < last.prev.hold_until
    /\ last.dc_target0 < PrevDuty )
  => last.ret = PrevDuty

\* C4 witness: hold active, target below the previous duty, duty kept.
C4_Witness ==
  /\ cycles > 0
  /\ last.prev.hold_until # 0
  /\ last.now < last.prev.hold_until
  /\ last.dc_target0 < PrevDuty
  /\ ~last.skip_adjustment
  /\ last.ret = PrevDuty

\* C5: with no hold active and no dead-band suppression, a target below
\* last_duty_cycle by more than down_rate_per_cycle gives exactly
\* last_duty_cycle - down_rate_per_cycle; a target below by at most
\* down_rate_per_cycle is returned as is.
C5_DownwardStep ==
  ( /\ cycles > 0
    /\ last.ran
    /\ ~(last.prev.hold_until # 0 /\ last.now < last.prev.hold_until)
    /\ ~last.skip_adjustment
    /\ last.dc_target0 < PrevDuty )
  => IF PrevDuty - last.dc_target0 > cfg.thermal.down_rate_per_cycle
     THEN last.ret = PrevDuty - cfg.thermal.down_rate_per_cycle
     ELSE last.ret = last.dc_target0

\* C5 witness: no hold, no dead-band, the target more than one down step
\* below, and the duty fell by exactly down_rate_per_cycle.
C5_Witness ==
  /\ cycles > 0
  /\ ~(last.prev.hold_until # 0 /\ last.now < last.prev.hold_until)
  /\ ~last.skip_adjustment
  /\ PrevDuty - last.dc_target0 > cfg.thermal.down_rate_per_cycle
  /\ cfg.thermal.down_rate_per_cycle > 0
  /\ last.ret = PrevDuty - cfg.thermal.down_rate_per_cycle

\* (C5, second case reached: the target at most one down step below.)
C5_SmallGapReached ==
  /\ cycles > 0
  /\ ~(last.prev.hold_until # 0 /\ last.now < last.prev.hold_until)
  /\ ~last.skip_adjustment
  /\ last.dc_target0 < PrevDuty
  /\ PrevDuty - last.dc_target0 <= cfg.thermal.down_rate_per_cycle
  /\ last.ret = last.dc_target0

\* C7: a source that is not heating (trend <= trend_heat_c) is classified
\* with thresholds lowered by hysteresis_c: T >= lv3 - hysteresis_c gives
\* 1.00, and likewise 0.75 / 0.50 / 0.25 for lv2 / lv1 / lv0.
C7_HysteresisWhenNotHeating ==
  (cycles > 0 /\ last.ran) =>
    /\ last.cpu_trend <= cfg.thermal.trend_heat_c =>
         last.dc_cpu_target = StepDuty(cfg.fan, cfg.thermal.hysteresis_c, last.cpu_avg)
    /\ last.ssd_trend <= cfg.thermal.trend_heat_c =>
         last.dc_ssd_target = StepDuty(cfg.fan_ssd, cfg.thermal.hysteresis_c, last.ssd_avg * TempScale)

\* C7 witness: the CPU is not heating, its smoothed temperature is inside
\* the band [lv3 - hysteresis_c, lv3), and its target is 1.00.
C7_Witness ==
  /\ cycles > 0
  /\ last.cpu_trend <= cfg.thermal.trend_heat_c
  /\ last.cpu_avg >= cfg.fan.lv3 - cfg.thermal.hysteresis_c
  /\ last.cpu_avg < cfg.fan.lv3
  /\ last.dc_cpu_target = Pct(100)

\* C8: on the first cycle after thermal_state_init the trend is 0 and a
\* first reading T with lv0 - hysteresis_c <= T < lv0 (storage below its own
\* shifted lv0) yields target 0.00.
C8_FirstCycleUnshifted ==
  ( /\ cycles = 1
    /\ last.ran
    /\ last.cpu_avg >= cfg.fan.lv0 - cfg.thermal.hysteresis_c
    /\ last.cpu_avg < cfg.fan.lv0
    /\ last.ssd_avg * TempScale < cfg.fan_ssd.lv0 - cfg.thermal.hysteresis_c )
  => /\ last.cpu_trend = 0
     /\ last.ssd_trend = 0
     /\ last.dc_target0 = 0

\* C9: as long as every CPU reading is below the CPU lv0 and every storage
\* reading is below the storage lv0, the duty stays 0.
C9_NoActivationBelowLv0 ==
  (peak.cpu < cfg.fan.lv0 /\ peak.ssd * TempScale < cfg.fan_ssd.lv0)
  => thermal_state.last_duty_cycle = 0

\* C10: a heating source (trend > trend_heat_c) is classified with the
\* unshifted thresholds; CPU and storage are classified independently and
\* the cycle target is the maximum of the two targets.
C10_HeatingUnshiftedAndMax ==
  (cycles > 0 /\ last.ran) =>
    /\ last.cpu_trend > cfg.thermal.trend_heat_c =>
         last.dc_cpu_target = StepDuty(cfg.fan, 0, last.cpu_avg)
    /\ last.ssd_trend > cfg.thermal.trend_heat_c =>
         last.dc_ssd_target = StepDuty(cfg.fan_ssd, 0, last.ssd_avg * TempScale)
    /\ last.dc_target0 >= last.dc_cpu_target
    /\ last.dc_target0 >= last.dc_ssd_target
    /\ last.dc_target0 \in {last.dc_cpu_target, last.dc_ssd_target}

\* C10 witness: the CPU is heating with its smoothed temperature inside a
\* hysteresis band (so the unshifted thresholds give the lower level), the
\* storage is not heating, and the storage target is the cycle target.
C10_Witness ==
  /\ cycles > 0
  /\ last.cpu_trend > cfg.thermal.trend_heat_c
  /\ last.ssd_trend <= cfg.thermal.trend_heat_c
  /\ last.dc_cpu_target = StepDuty(cfg.fan, 0, last.cpu_avg)
  /\ last.dc_cpu_target < StepDuty(cfg.fan, cfg.thermal.hysteresis_c, last.cpu_avg)
  /\ last.dc_ssd_target > last.dc_cpu_target
  /\ last.dc_target0 = last.dc_ssd_target

\* C6: once every CPU and storage reading is zero/unavailable, the duty
\* falls by at most down_rate_per_cycle per cycle and eventually becomes 0.
C6_SilentSensorsDecayToZero ==
  /\ [][ cycles >= MaxWarm =>
           thermal_state'.last_duty_cycle >=
             thermal_state.last_duty_cycle - cfg.thermal.down_rate_per_cycle ]_vars
  /\ <>(cycles >= MaxWarm /\ thermal_state.last_duty_cycle = 0)

\* the kept samples of one source, oldest first, rise / fall strictly
CpuRising == \A i \in 1..(Len(samples) - 1) : samples[i].cpu < samples[i + 1].cpu
CpuFalling == \A i \in 1..(Len(samples) - 1) : samples[i].cpu > samples[i + 1].cpu
SsdRising == \A i \in 1..(Len(samples) - 1) : samples[i].ssd < samples[i + 1].ssd
SsdFalling == \A i \in 1..(Len(samples) - 1) : samples[i].ssd > samples[i + 1].ssd

\* C11: in every cycle with at least 3 samples, strictly increasing readings
\* give a trend > 0 and strictly decreasing readings a trend < 0, for the
\* CPU and for the storage, before and after the ring buffer has wrapped.
C11_TrendSignFollowsReadings ==
  (cycles > 0 /\ last.ran /\ thermal_state.history_count >= 3) =>
    /\ CpuRising => last.cpu_trend > 0
    /\ CpuFalling => last.cpu_trend < 0
    /\ SsdRising => last.ssd_trend > 0
    /\ SsdFalling => last.ssd_trend < 0

\* (C11, first fill only: the same statement while the buffer has not wrapped.)
C11_FirstFillOnly ==
  (cycles > 0 /\ cycles <= TEMP_HISTORY_SIZE) => C11_TrendSignFollowsReadings

\* C12: in every cycle whose history holds fewer than 3 samples, the CPU
\* trend and the storage trend are exactly 0, whatever the samples are.
C12_NoTrendBelowThreeSamples ==
  (cycles > 0 /\ last.ran /\ thermal_state.history_count < 3) =>
    /\ last.cpu_trend = 0
    /\ last.ssd_trend = 0

\* C12 witness: the second cycle, with two different CPU samples and two
\* different storage samples in the history, and both trends 0.
C12_Witness ==
  /\ cycles = 2
  /\ thermal_state.history_count = 2
  /\ samples[1].cpu # samples[2].cpu
  /\ samples[1].ssd # samples[2].ssd
  /\ last.cpu_trend = 0
  /\ last.ssd_trend = 0

\* C13: the storage sample pushed into the history equals the maximum over
\* the readings of all four devices of that cycle, an unavailable device
\* counting as 0, whichever device slots are available.
C13_StorageSampleIsMaxOfDevices ==
  (cycles > 0 /\ last.ran) =>
    /\ last.max_ssd_temp = MaxOfSeq(input.dev)
    /\ samples[Len(samples)].ssd = MaxOfSeq(input.dev)

\* sums over the kept samples (the last min(k, 10) samples after k cycles)
RECURSIVE SumCpu(_)
SumCpu(sq) == IF sq = <<>> THEN 0 ELSE Head(sq).cpu + SumCpu(Tail(sq))
RECURSIVE SumSsd(_)
SumSsd(sq) == IF sq = <<>> THEN 0 ELSE Head(sq).ssd + SumSsd(Tail(sq))

\* number of samples the averages range over after `cycles` cycles
KeptSamples == IF cycles < TEMP_HISTORY_SIZE THEN cycles ELSE TEMP_HISTORY_SIZE

\* C14 (as stated): after k cycles the smoothed CPU temperature is the
\* arithmetic mean of the last min(k,10) CPU samples and the smoothed storage
\* temperature is the arithmetic mean of the last min(k,10) storage samples.
C14_SmoothedIsArithmeticMean ==
  (cycles > 0 /\ last.ran) =>
    /\ thermal_state.history_count = KeptSamples
    /\ Len(samples) = KeptSamples
    /\ last.cpu_avg * KeptSamples = SumCpu(samples)
    /\ last.ssd_avg * KeptSamples = SumSsd(samples)

\* C14 (amended): the smoothed CPU temperature is the arithmetic mean of the
\* last min(k,10) CPU samples; the smoothed storage temperature is the
\* arithmetic mean of the last min(k,10) storage samples truncated to a whole
\* degree.
C14_SmoothedIsMeanStorageTruncated ==
  (cycles > 0 /\ last.ran) =>
    /\ thermal_state.history_count = KeptSamples
    /\ Len(samples) = KeptSamples
    /\ last.cpu_avg * KeptSamples = SumCpu(samples)
    /\ last.ssd_avg = SumSsd(samples) \div KeptSamples

\* C14 witness: the buffer has wrapped (more than 10 cycles), the CPU mean is
\* taken over the last 10 samples, and the storage sum is not a multiple of
\* 10, so the storage average is the truncated mean.
C14_Witness ==
  /\ cycles > TEMP_HISTORY_SIZE
  /\ Len(samples) = TEMP_HISTORY_SIZE
  /\ samples[1].cpu # samples[TEMP_HISTORY_SIZE].cpu
  /\ last.cpu_avg * TEMP_HISTORY_SIZE = SumCpu(samples)
  /\ SumSsd(samples) % TEMP_HISTORY_SIZE # 0
  /\ last.ssd_avg = SumSsd(samples) \div TEMP_HISTORY_SIZE

\* change of the smoothed temperatures in the most recent cycle
CpuDelta == last.cpu_avg - last.prev.last_cpu_temp
SsdDelta == (last.ssd_avg - last.prev.last_ssd_temp) * TempScale

\* C15: dead-band suppression never fires in a cycle in which the smoothed
\* CPU temperature or the smoothed storage temperature changed by deadband_c
\* or more in magnitude since the previous cycle.
C15_DeadbandOnlyOnSmallChanges ==
  (cycles > 0 /\ last.ran /\ last.skip_adjustment) =>
    /\ Abs(CpuDelta) < cfg.thermal.deadband_c
    /\ Abs(SsdDelta) < cfg.thermal.deadband_c

\* (C15, the case that matters: suppression fired on a large change and kept
\* the duty away from a different target.)
C15_SuppressedLargeChange ==
  /\ cycles > 0
  /\ last.skip_adjustment
  /\ Abs(CpuDelta) >= cfg.thermal.deadband_c
  /\ last.dc_target0 # PrevDuty

\* C16: under the default tunables the duty returned by consecutive cycles
\* never rises by more than 0.10 and never falls by more than 0.05 per cycle,
\* whatever the temperature trend.
C16_DefaultRatesPerCycle ==
  (cycles > 0 /\ last.ran /\ cfg = DefaultConfig) =>
    /\ last.ret - PrevDuty <= Pct(10)
    /\ PrevDuty - last.ret <= Pct(5)

\* C16 witness: default tunables, a rising trend large enough for the legacy
\* cap to take over from the adaptive rate, and the duty rose by exactly 0.10.
C16_Witness ==
  /\ cycles > 0
  /\ cfg = DefaultConfig
  /\ Max2(last.cpu_trend, last.ssd_trend) > TempScale
  /\ last.up_rate = Pct(10)
  /\ last.ret - PrevDuty = Pct(10)

\* a temperature a device could have reported instead of none
DeviceTemps == {47}

\* C17: a cycle with an unavailable CPU reading or an unavailable storage
\* reading still completes and returns a duty; the unavailable reading is
\* taken as 0 (so with no device at all the storage sample is 0), and
\* compared with the same cycle given a real reading the moving average of
\* that source is not higher and the other source's average is the same.
C17_MissingReadingsCountAsZero ==
  cycles > 0 =>
    /\ last.ran
    /\ last.ret >= 0 /\ last.ret <= DutyScale
    /\ thermal_state.history_index = (last.prev.history_index + 1) % TEMP_HISTORY_SIZE
    /\ input.file = Unavailable =>
         /\ last.cpu_temp = 0
         /\ samples[Len(samples)].cpu = 0
         /\ \A f \in CpuFiles \ {Unavailable} :
              \E m \in {Measure(cfg, last.prev, f, input.dev)} :
                 /\ last.cpu_avg <= m.cpu_avg
                 /\ last.ssd_avg = m.ssd_avg
    /\ input.dev = <<0, 0, 0, 0>> => samples[Len(samples)].ssd = 0
    /\ \A i \in 1..NUM_DEVICES :
         input.dev[i] = 0 =>
           /\ thermal_read_ssd_temps(input.dev).temps[i] = 0
           /\ \A v \in DeviceTemps :
                \E m \in {Measure(cfg, last.prev, input.file, [input.dev EXCEPT ![i] = v])} :
                   /\ last.ssd_avg <= m.ssd_avg
                   /\ last.cpu_avg = m.cpu_avg

\* C17 witness: after a cycle with real readings, a cycle in which the CPU
\* reading and every device reading are unavailable ingested 0 for both,
\* lowered both averages and still returned a duty above 0.
C17_Witness ==
  /\ cycles > 1
  /\ last.ran
  /\ input.file = Unavailable
  /\ input.dev = <<0, 0, 0, 0>>
  /\ samples[Len(samples)] = [cpu |-> 0, ssd |-> 0]
  /\ last.cpu_avg < last.prev.last_cpu_temp
  /\ last.ssd_avg < last.prev.last_ssd_temp
  /\ last.ret > 0

\* C18: after any sequence of fan_set_duty_cycle calls with arbitrary
\* arguments the stored duty is the last argument clamped to [0,1], and the
\* waveform thread never loads a value outside [0,1].
C18_StoredDutyClampedObservedInRange ==
  /\ fan.duty_cycle >= 0 /\ fan.duty_cycle <= DutyScale
  /\ fan_call.made =>
       fan.duty_cycle = IF fan_call.arg < 0 THEN 0
                        ELSE IF fan_call.arg > DutyScale THEN DutyScale
                        ELSE fan_call.arg
  /\ \A d \in {thread.d_check, thread.d_high, thread.d_low} : d >= 0 /\ d <= DutyScale

\* C18 witness: the last call asked for more than 1, the stored duty is 1,
\* and the thread is in the active phase of an iteration that loaded 1.
C18_Witness ==
  /\ fan_call.made
  /\ fan_call.arg > DutyScale
  /\ fan.duty_cycle = DutyScale
  /\ thread.pc = "sleep_high"
  /\ thread.d_high = DutyScale

\* (C18: a call with a negative argument stored 0, seen by the thread.)
C18_NegativeStoredAsZero ==
  /\ fan_call.made
  /\ fan_call.arg < 0
  /\ fan.duty_cycle = 0
  /\ thread.pc = "sleep_off"
  /\ thread.d_check = 0

\* C19: at the end of every control-loop iteration the duty stored in the
\* actuator equals the duty the engine returned in that iteration.
C19_ActuatorHoldsEngineDuty ==
  cycles > 0 => fan.duty_cycle = last.ret

\* C19 witness: hardware backend, the node could not be opened in this
\* iteration, and the stored duty still equals the engine's new duty.
C19_Witness ==
  /\ cycles > 0
  /\ fan.use_hardware_pwm = 1
  /\ fan_call.made
  /\ fan_call.ret = -1
  /\ last.ret > PrevDuty
  /\ fan.duty_cycle = last.ret

\* (C19: an iteration that made no call because the duty had not changed.)
C19_SkippedCallReached ==
  /\ cycles > 1
  /\ ~fan_call.made
  /\ last.ret > 0
  /\ fan.duty_cycle = last.ret

\* C20: after a control cycle whose fan_set_duty_cycle call failed on the
\* hardware backend, the next control cycle calls fan_set_duty_cycle again,
\* and if the node is writable then, the hardware duty equals the engine's
\* duty at the end of that cycle, also when the computed duty is unchanged.
C20_FailedWriteRetriedNextCycle ==
  [][ ( /\ fan.use_hardware_pwm = 1
        /\ fan_call.made
        /\ fan_call.ret = -1
        /\ cycles' = cycles + 1 )
      => /\ fan_call'.made
         /\ fan_call'.node_ok =>
              pwm_node'.duty_cycle = DutyNs(fan.pwm_period_ns, last'.ret) ]_vars

\* (C20, the case that matters: the write of a new duty failed, the duty did
\* not change in the next cycle, the node was writable then, and the
\* hardware still runs with the old duty.)
C20_StaleHardwareDuty ==
  /\ cycles > 1
  /\ fan.use_hardware_pwm = 1
  /\ fan_call.node_ok
  /\ ~fan_call.made
  /\ last.ret > 0
  /\ pwm_node.duty_cycle # DutyNs(fan.pwm_period_ns, last.ret)

\* C21: on the hardware backend, a control cycle whose fan_set_duty_cycle
\* call cannot open the duty_cycle node gets an error back, leaves the
\* node as the last successful write left it, and leaves main() in its loop
\* with the running flag untouched.
C21_FailedOpenKeepsRegisterAndLoop ==
  [][ ( /\ fan.use_hardware_pwm = 1
        /\ cycles' = cycles + 1
        /\ fan_call'.made
        /\ ~fan_call'.node_ok )
      => /\ fan_call'.ret = -1
         /\ pwm_node' = pwm_node
         /\ main_pc' = "loop"
         /\ running' = running ]_vars

\* C21 witness: after an earlier successful write of a non-zero duty, the
\* call of a later cycle failed; the node still holds the earlier value,
\* which is not the one this call was to write, and the loop is running.
C21_Witness ==
  /\ cycles > 1
  /\ fan.use_hardware_pwm = 1
  /\ fan_call.made
  /\ ~fan_call.node_ok
  /\ fan_call.ret = -1
  /\ pwm_node.duty_cycle > 0
  /\ pwm_node.duty_cycle # DutyNs(fan.pwm_period_ns, fan_call.arg)
  /\ main_pc = "loop"
  /\ running = 1

\* (C21: a cycle that ran, and wrote the node, after a cycle whose call had
\* failed while the node still held 0.)
C21_LaterCycleWrote ==
  /\ cycles > 2
  /\ fan.use_hardware_pwm = 1
  /\ fan_call.made
  /\ fan_call.ret = 0
  /\ last.prev.last_duty_cycle > 0
  /\ pwm_node.duty_cycle = DutyNs(fan.pwm_period_ns, last.ret)

\* C22: once fan_init has returned success on the hardware backend, the
\* period register holds 40000 ns and the channel is enabled.
C22_PeriodSetAndEnabled ==
  fan.use_hardware_pwm = 1 =>
    /\ pwm_node.period = PWM_PERIOD_US * 1000
    /\ pwm_node.enable = 1

\* (C22: fan_init succeeded, the enable file was written, and the period
\* register still holds what it held before.)
C22_EnabledWithOldPeriod ==
  /\ fan.use_hardware_pwm = 1
  /\ fan.pwm_period_ns = PWM_PERIOD_US * 1000
  /\ pwm_node.enable = 1
  /\ pwm_node.period = 0

\* the whole number nearest to num / den  (num >= 0, den > 0)
RoundDiv(num, den) == (2 * num + den) \div (2 * den)

\* the most recent fan_set_duty_cycle call had an argument in [0,1] and wrote
\* the hardware node
WroteNode ==
  /\ fan.use_hardware_pwm = 1
  /\ fan_call.made
  /\ fan_call.ret = 0
  /\ fan_call.arg >= 0
  /\ fan_call.arg <= DutyScale

\* C23 (as stated): on the hardware backend, for every duty d in [0,1] the
\* value written to the duty_cycle node is round(period_ns * d), and
\* duty_ns / period_ns is within one unit (1 / period_ns) of d.
C23_WrittenDutyIsRounded ==
  WroteNode =>
    /\ pwm_node.duty_cycle = RoundDiv(fan.pwm_period_ns * fan_call.arg, DutyScale)
    /\ Abs(pwm_node.duty_cycle * DutyScale - fan.pwm_period_ns * fan_call.arg) <= DutyScale

\* C23 (amended): the value written is period_ns * d with its fraction cut
\* off, the largest whole number of nanoseconds not above period_ns * d; so
\* duty_ns / period_ns is at most d and less than one unit below it.
C23_WrittenDutyIsTruncated ==
  WroteNode =>
    /\ pwm_node.duty_cycle * DutyScale <= fan.pwm_period_ns * fan_call.arg
    /\ fan.pwm_period_ns * fan_call.arg < (pwm_node.duty_cycle + 1) * DutyScale

\* C23 witness: a duty whose product with the period has a fraction of at
\* least one half was written, one below the nearest whole number.
C23_Witness ==
  /\ WroteNode
  /\ 2 * ((fan.pwm_period_ns * fan_call.arg) % DutyScale) >= DutyScale
  /\ pwm_node.duty_cycle + 1 = RoundDiv(fan.pwm_period_ns * fan_call.arg, DutyScale)

\* C24: a fan_set_duty_cycle call that repeats the call before it (same
\* duty, the node opening or failing alike) leaves fan_t (stored duty,
\* backend, period, running flag) and the hardware node exactly as the
\* first call left them; the thread, which derives the waveform from fan_t,
\* is not touched by either call.
C24_RepeatedCallChangesNothing ==
  repeated.repeat =>
    /\ fan = repeated.fan
    /\ pwm_node = repeated.node

\* C24 witness: 0.3 was handed over twice in a row on the hardware backend
\* and written both times; the node holds 12000 ns.
C24_Witness ==
  /\ repeated.repeat
  /\ fan.use_hardware_pwm = 1
  /\ fan_call.arg = Pct(30)
  /\ fan_call.ret = 0
  /\ fan.duty_cycle = Pct(30)
  /\ pwm_node.duty_cycle = 12000

\* (C24: the repeated call on the software backend while the thread is in
\* the active phase of an iteration.)
C24_RepeatDuringActivePhase ==
  /\ repeated.repeat
  /\ fan.use_hardware_pwm = 0
  /\ fan.duty_cycle = Pct(30)
  /\ thread.pc = "sleep_high"
  /\ thread.line = 1

\* the thread is inside an iteration that took the non-zero branch and read
\* the same duty d at all three places
InPhasesOf(d) ==
  /\ thread.pc \in {"sleep_high", "sleep_low"}
  /\ thread.d_check = d
  /\ thread.d_high = d
  /\ thread.d_low = d

\* C25: in a software-PWM iteration with duty d > 0.001 the two durations
\* handed to usleep, for the active and for the inactive phase, add up to
\* the 40 us period.
C25_PhasesSumToPeriod ==
  InPhasesOf(thread.d_check) => thread.high_us + thread.low_us = PWM_PERIOD_US

\* (C25: an iteration at duty 0.3 sleeps 11 us active and 27 us inactive.)
C25_ShortIteration ==
  /\ InPhasesOf(Pct(30))
  /\ thread.high_us = 11
  /\ thread.low_us = 27

\* (C25: an iteration at duty 1.0 sleeps 39 us active and 0 us inactive.)
C25_FullDutyIteration ==
  /\ InPhasesOf(DutyScale)
  /\ thread.high_us = 39
  /\ thread.low_us = 0

\* C26: within one iteration of the thread the zero test, the active
\* duration and the inactive duration all come from one and the same duty
\* value, whatever fan_set_duty_cycle calls run alongside.
C26_OneLoadPerIteration ==
  thread.pc \in {"sleep_high", "sleep_low"} =>
    /\ thread.d_high = thread.d_check
    /\ thread.d_low = thread.d_check

\* (C26: the zero test saw 0.3, then 0 was stored, and the iteration drives
\* the line active for a duration computed from 0 and inactive for a full
\* period.)
C26_MixedIteration ==
  /\ thread.pc = "sleep_high"
  /\ thread.line = 1
  /\ thread.d_check = Pct(30)
  /\ thread.d_high = 0
  /\ thread.d_low = 0
  /\ thread.high_us = 0
  /\ thread.low_us = 39

\* the stored duty is 0 for the thread's purposes (at most 0.001)
StoredZero == fan.duty_cycle <= DutyScale \div 1000

\* the thread is at the loop test, in the zero branch, or has returned
QuietPlaces == {"test", "check", "sleep_off", "exit"}

\* C27: software backend.  While the stored duty is 0 (at most 0.001) the
\* thread, once it is at a loop test or in the zero branch, stays there
\* with the line inactive; and if the stored duty stays 0 from some point
\* on, the thread finishes the iteration in progress and from then on is
\* only ever in those places with the line inactive.
C27_ZeroDutyKeepsLineInactive ==
  /\ [][ ( /\ StoredZero
           /\ fan'.duty_cycle <= DutyScale \div 1000
           /\ thread.pc \in QuietPlaces )
         => /\ thread'.pc \in QuietPlaces
            /\ thread'.line = 0 ]_vars
  /\ (<>[]StoredZero => <>[](thread.pc \in QuietPlaces /\ thread.line = 0))

\* C27 witness: after an iteration that drove the line active at duty 0.3,
\* a duty of 0.0005 was stored and the thread took the zero branch: line
\* inactive, sleeping one period.
C27_Witness ==
  /\ fan.use_hardware_pwm = 0
  /\ StoredZero
  /\ fan.duty_cycle > 0
  /\ thread.pc = "sleep_off"
  /\ thread.d_check = fan.duty_cycle
  /\ thread.d_high = Pct(30)
  /\ thread.high_us = 11
  /\ thread.line = 0

\* main() is in or past fan_cleanup
InCleanup == main_pc \in {"cleanup", "wait", "done"}

\* C28: once a signal has cleared `running` no further control cycle
\* starts and main() goes on to the end of its cleanup; the stored duty is
\* 0 from before fan_cleanup is entered, so in particular when the line
\* request and the chip are released; and once fan_cleanup has returned
\* (Stopped) the stored duty is 0 and fan->running is cleared.
C28_ShutdownOrdering ==
  /\ [](InCleanup => fan.duty_cycle = 0)
  /\ [](main_pc = "done" => fan.running = 0)
  /\ []((fan.use_hardware_pwm = 0 /\ ~gpio.line_requested) => main_pc = "done")
  /\ [][ running = 0 => cycles' = cycles ]_vars
  /\ [][ gpio' # gpio =>
           /\ fan.duty_cycle = 0
           /\ fan_call.made
           /\ fan_call.arg = StopDuty
           /\ fan'.duty_cycle = 0 ]_vars
  /\ (running = 0 ~> main_pc = "done")

\* C28 witness: the signal came while the engine's duty was above 0; the
\* software backend is stopped, with the stored duty 0, the flag cleared
\* and the handles released.
C28_Witness ==
  /\ main_pc = "done"
  /\ running = 0
  /\ fan.use_hardware_pwm = 0
  /\ thermal_state.last_duty_cycle > 0
  /\ fan.duty_cycle = 0
  /\ fan.running = 0
  /\ ~gpio.line_requested
  /\ ~gpio.chip_open

\* C29: software backend.  Once fan_cleanup has cleared fan->running, a
\* thread at its loop test starts no further iteration, a thread inside an
\* iteration reaches the loop test at the end of that iteration, and the
\* thread then returns for good.
C29_ThreadExitsAfterFlagCleared ==
  /\ [][ (fan.running = 0 /\ thread.pc = "test")
         => thread'.pc \in {"test", "exit"} ]_vars
  /\ [][ thread.pc = "exit" => thread'.pc = "exit" ]_vars
  /\ ((fan.use_hardware_pwm = 0 /\ fan.running = 0) ~> thread.pc = "exit")

\* C29 witness: the thread, which had been driving a non-zero duty, has
\* returned after the flag was cleared, while fan_cleanup is still in its
\* usleep.
C29_Witness ==
  /\ fan.use_hardware_pwm = 0
  /\ fan.running = 0
  /\ main_pc = "wait"
  /\ thread.pc = "exit"
  /\ thread.high_us > 0
  /\ thread.line = 0

\* (C29: the flag was cleared while the thread was in the active phase of
\* an iteration.)
C29_ClearedMidIteration ==
  /\ fan.use_hardware_pwm = 0
  /\ fan.running = 0
  /\ thread.pc = "sleep_high"
  /\ thread.line = 1

\* the thermal tunables: field, [thermal] key, environment variable and
\* default as documented (README "Thermal Tunables", config.h:21-40;
\* max_dc_change, which the README leaves out, as config.c names it)
TunableDocs ==
  { [field |-> "hysteresis_c", key |-> "hysteresis",
     env |-> "RADXA_HYSTERESIS_C", default |-> 3000],
    [field |-> "deadband_c", key |-> "deadband",
     env |-> "RADXA_DEADBAND_C", default |-> 1500],
    [field |-> "trend_heat_c", key |-> "trend_heat",
     env |-> "RADXA_TREND_HEAT_C", default |-> 300],
    [field |-> "trend_fast_heat_c", key |-> "trend_fast_heat",
     env |-> "RADXA_TREND_FAST_HEAT_C", default |-> 1000],
    [field |-> "max_dc_change_per_cycle", key |-> "max_dc_change",
     env |-> "RADXA_MAX_DC_CHANGE", default |-> 100],
    [field |-> "min_effective_dc", key |-> "min_effective_dc",
     env |-> "RADXA_MIN_EFFECTIVE_DC", default |-> 350],
    [field |-> "up_rate_base_per_cycle", key |-> "up_rate_base",
     env |-> "RADXA_UP_RATE_BASE", default |-> 70],
    [field |-> "up_rate_trend_gain", key |-> "up_rate_trend_gain",
     env |-> "RADXA_UP_RATE_TREND_GAIN", default |-> 200],
    [field |-> "up_rate_max_per_cycle", key |-> "up_rate_max",
     env |-> "RADXA_UP_RATE_MAX", default |-> 300],
    [field |-> "down_rate_per_cycle", key |-> "down_rate",
     env |-> "RADXA_DOWN_RATE", default |-> 50],
    [field |-> "cooldown_hold_sec", key |-> "cooldown_hold_sec",
     env |-> "RADXA_COOLDOWN_HOLD_SEC", default |-> 20000] }

\* line i of the file lies in the [thermal] section
InThermalSection(lines, i) ==
  \E j \in 1..(i - 1) :
    /\ lines[j].kind = "section"
    /\ lines[j].name = "thermal"
    /\ \A k \in (j + 1)..(i - 1) : lines[k].kind # "section"

\* the lines of the [thermal] section that give this key
KeyLines(file, key) ==
  IF file.exists
  THEN { i \in 1..Len(file.lines) :
           /\ file.lines[i].kind = "pair"
           /\ file.lines[i].key = key
           /\ InThermalSection(file.lines, i) }
  ELSE {}

\* the latest of some line numbers
Latest(S) == CHOOSE i \in S : \A j \in S : j <= i

\* the value precedence gives a tunable: environment, then file, then default
ByPrecedence(t) ==
  LET e == boot.env[t.env]
      hits == KeyLines(boot.file, t.key)
  IN  IF e.set /\ strtod(e.text).moved
      THEN strtod(e.text).val
      ELSE IF hits # {}
           THEN strtod(boot.file.lines[Latest(hits)].value).val
           ELSE t.default

\* C30: after config_load every thermal tunable has the value of its
\* environment variable when that is set and parseable, else the value its
\* key has in the [thermal] section of the file when the file exists and
\* has the key, else its default.
C30_EnvOverFileOverDefault ==
  boot.pc = "loaded" =>
    \A t \in TunableDocs : boot.thermal[t.field] = ByPrecedence(t)

\* (C30: with no file and nothing set, min_effective_dc holds whatever the
\* uninitialised cfg held, not its documented default.)
C30_MinEffectiveDcLeftAsFound ==
  /\ boot.pc = "loaded"
  /\ ~boot.file.exists
  /\ boot.env = NoEnv
  /\ boot.thermal["min_effective_dc"] = 777

\* (C30: the tunables config_load does handle follow the precedence.)
C30_HandledTunablesFollowPrecedence ==
  boot.pc = "loaded" =>
    \A t \in TunableDocs :
      t.field \in DOMAIN BuiltIn => boot.thermal[t.field] = ByPrecedence(t)

\* (C30: an environment value over a file value, both present.)
C30_EnvOverFileReached ==
  /\ boot.pc = "loaded"
  /\ boot.env["RADXA_DOWN_RATE"].text = "2.5"
  /\ KeyLines(boot.file, "down_rate") # {}
  /\ boot.thermal["down_rate_per_cycle"] = 2500

\* the defaults the README documents ("Thermal Tunables", part_002:160-173),
\* in thousandths
DocumentedDefaults ==
  [ hysteresis_c           |-> 3000,
    deadband_c             |-> 1500,
    trend_heat_c           |-> 300,
    trend_fast_heat_c      |-> 1000,
    min_effective_dc       |-> 350,
    up_rate_base_per_cycle |-> 70,
    up_rate_trend_gain     |-> 200,
    up_rate_max_per_cycle  |-> 300,
    down_rate_per_cycle    |-> 50,
    cooldown_hold_sec      |-> 20000 ]

\* config_load has run with no config file and no RADXA_* variable set
LoadedBare ==
  /\ boot.pc = "loaded"
  /\ ~boot.file.exists
  /\ boot.env = NoEnv

\* C31: with no config file and no environment override, config_load leaves
\* every documented thermal tunable at its documented default (hysteresis
\* 3.0, deadband 1.5, trend_heat 0.3, trend_fast_heat 1.0, min_effective_dc
\* 0.35, up_rate_base 0.07, up_rate_trend_gain 0.20, up_rate_max 0.30,
\* down_rate 0.05, cooldown_hold_sec 20).
C31_DocumentedDefaults ==
  LoadedBare =>
    \A f \in DOMAIN DocumentedDefaults : boot.thermal[f] = DocumentedDefaults[f]

\* (C31: the nine documented tunables config_load does set have their
\* documented default.)
C31_SetDefaultsAsDocumented ==
  LoadedBare =>
    \A f \in DOMAIN DocumentedDefaults \cap DOMAIN BuiltIn :
      boot.thermal[f] = DocumentedDefaults[f]

\* (C31: the bare load with min_effective_dc at 0, as a zeroed stack
\* leaves it.)
C31_MinEffectiveDcZero ==
  /\ LoadedBare
  /\ boot.thermal["min_effective_dc"] = 0

\* the largest of the smoothed CPU delta and the smoothed storage delta of
\* the last cycle, in temperature units
LargestDelta ==
  Max2(last.cpu_avg - last.prev.last_cpu_temp,
       (last.ssd_avg - last.prev.last_ssd_temp) * TempScale)

\* the three dead-band conditions as the last cycle found them
DeadbandConditions ==
  /\ last.prev.stable_cycles > 5
  /\ Abs(LargestDelta) < cfg.thermal.deadband_c
  /\ Abs(last.dc_target0 - last.prev.last_duty_cycle) < Pct(15)

\* C32: dead-band suppression.  In a cycle entered with stable_cycles > 5,
\* whose largest smoothed delta (CPU, storage) is within deadband_c and whose
\* target is less than 0.15 away from last_duty_cycle, the target is forced
\* to last_duty_cycle: the returned duty is the previous duty and
\* stable_cycles is incremented.  When one of the three conditions fails the
\* target is left as computed.
C32_DeadbandSuppression ==
  last.ran =>
    IF DeadbandConditions
    THEN /\ last.dc_target = last.prev.last_duty_cycle
         /\ last.ret = last.prev.last_duty_cycle
         /\ last.state.stable_cycles = last.prev.stable_cycles + 1
    ELSE last.dc_target = last.dc_target0

\* (C32: the dead-band replaced a target that differed from the duty.)
C32_Witness ==
  /\ last.ran
  /\ DeadbandConditions
  /\ last.dc_target0 # last.prev.last_duty_cycle
  /\ last.ret = last.prev.last_duty_cycle

\* (C32: a stable cycle whose target is near but whose delta is too large.)
C32_LargeDeltaNotSuppressed ==
  /\ last.ran
  /\ last.prev.stable_cycles > 5
  /\ Abs(last.dc_target0 - last.prev.last_duty_cycle) < Pct(15)
  /\ last.dc_target0 # last.prev.last_duty_cycle
  /\ ~DeadbandConditions

\* the upward step the tunables allow in the last cycle: base plus gain
\* times the larger trend when that is positive, then the legacy cap when
\* it is positive and smaller, then up_rate_max_per_cycle
AllowedUp ==
  LET th == cfg.thermal
      heat == Max2(last.cpu_trend, last.ssd_trend)
      scaled == IF heat > 0
                THEN th.up_rate_base_per_cycle
                     + (th.up_rate_trend_gain * heat) \div TempScale
                ELSE th.up_rate_base_per_cycle
      capped == IF th.max_dc_change_per_cycle > 0
                THEN Min2(scaled, th.max_dc_change_per_cycle)
                ELSE scaled
  IN  Min2(capped, th.up_rate_max_per_cycle)

\* C33: upward step.  In every cycle whose target is above last_duty_cycle,
\* cooldown hold active or not, the duty rises by min(target - last,
\* allowed), where allowed is up_rate_base + up_rate_trend_gain * max(cpu
\* trend, storage trend) when that maximum is positive (else up_rate_base),
\* reduced to max_dc_change_per_cycle when that cap is positive and smaller,
\* then to up_rate_max_per_cycle.
C33_UpwardStep ==
  (last.ran /\ last.dc_target > last.prev.last_duty_cycle) =>
    last.ret - last.prev.last_duty_cycle
      = Min2(last.dc_target - last.prev.last_duty_cycle, AllowedUp)

\* (C33: a rise during an active hold, limited by base plus trend gain.)
C33_Witness ==
  /\ last.ran
  /\ last.hold_active
  /\ Max2(last.cpu_trend, last.ssd_trend) > 0
  /\ AllowedUp > cfg.thermal.up_rate_base_per_cycle
  /\ last.dc_target - last.prev.last_duty_cycle > AllowedUp
  /\ last.ret = last.prev.last_duty_cycle + AllowedUp

\* (C33: a rise that stops at the target, short of the allowed step.)
C33_RiseEndsAtTarget ==
  /\ last.ran
  /\ last.dc_target > last.prev.last_duty_cycle
  /\ last.dc_target - last.prev.last_duty_cycle < AllowedUp
  /\ last.ret = last.dc_target

\* (C33: a rise limited by the legacy cap although the trend allows more.)
C33_RiseLimitedByLegacyCap ==
  /\ last.ran
  /\ Max2(last.cpu_trend, last.ssd_trend) > 0
  /\ cfg.thermal.max_dc_change_per_cycle > 0
  /\ last.ret = last.prev.last_duty_cycle + cfg.thermal.max_dc_change_per_cycle
  /\ last.dc_target > last.ret

\* C34: after every cycle stable_cycles is the number of most recent
\* consecutive cycles whose returned duty equalled the duty before that
\* cycle: one more after a cycle that returned the prior duty, 0 after a
\* cycle that changed it.
C34_StableCyclesCountsUnchangedRun ==
  /\ thermal_state.stable_cycles = unchanged_run
  /\ last.ran =>
       thermal_state.stable_cycles
         = IF last.ret = last.prev.last_duty_cycle
           THEN last.prev.stable_cycles + 1
           ELSE 0

\* (C34: a count of at least 3 built up, after an earlier change.)
C34_Witness ==
  /\ thermal_state.stable_cycles >= 3
  /\ unchanged_run = thermal_state.stable_cycles
  /\ cycles > unchanged_run + 1

\* (C34: a change of the duty that sets a count of at least 2 back to 0.)
C34_CountReset ==
  /\ last.ran
  /\ last.prev.stable_cycles >= 2
  /\ last.ret < last.prev.last_duty_cycle
  /\ thermal_state.stable_cycles = 0

\* hold_until before and after the last cycle, and whether that cycle raised
\* the duty
RaisedDuty == last.ran /\ last.ret > last.prev.last_duty_cycle

\* C35: hold_until is written only by a cycle whose final duty is strictly
\* above the prior duty, and then becomes now + cooldown_hold_sec; every
\* other cycle (equal or lower duty, dead-band no-op) leaves it unchanged,
\* and it is 0 until the first increase.
C35_HoldWrittenOnIncreaseOnly ==
  /\ increased_at = 0 => thermal_state.hold_until = 0
  /\ last.ran =>
       IF RaisedDuty
       THEN thermal_state.hold_until * HoldScale
              = last.now * HoldScale + cfg.thermal.cooldown_hold_sec
       ELSE thermal_state.hold_until = last.prev.hold_until

\* (C35: the same with the hold length cut to whole seconds, as the
\* (time_t) cast does.)
C35_HoldWrittenWholeSeconds ==
  /\ increased_at = 0 => thermal_state.hold_until = 0
  /\ last.ran =>
       IF RaisedDuty
       THEN thermal_state.hold_until
              = last.now + cfg.thermal.cooldown_hold_sec \div HoldScale
       ELSE thermal_state.hold_until = last.prev.hold_until

\* (C35: a rise under cooldown_hold_sec = 1.5 stores now + 1.)
C35_FractionalHoldCut ==
  /\ RaisedDuty
  /\ cfg.thermal.cooldown_hold_sec = 3
  /\ thermal_state.hold_until = last.now + 1

\* (C35: a lowering cycle after a hold has run out leaves hold_until alone.)
C35_DecreaseKeepsHoldUntil ==
  /\ last.ran
  /\ last.ret < last.prev.last_duty_cycle
  /\ last.prev.hold_until # 0
  /\ thermal_state.hold_until = last.prev.hold_until

\* the slot (1-based) holding the k-th oldest of the samples in the buffer
SlotOf(k) ==
  ((thermal_state.history_index + TEMP_HISTORY_SIZE - Len(samples) + k - 1)
     % TEMP_HISTORY_SIZE) + 1

\* the buffer holds exactly the most recent samples, in ring order
RingHoldsRecent ==
  /\ Len(samples) = thermal_state.history_count
  /\ \A k \in 1..Len(samples) :
       /\ thermal_state.cpu_temps[SlotOf(k)] = samples[k].cpu
       /\ thermal_state.ssd_temps[SlotOf(k)] = samples[k].ssd

\* a cycle writes one slot: the one at history_index
WritesOneSlot ==
  \A j \in 1..TEMP_HISTORY_SIZE :
    j # thermal_state.history_index + 1 =>
      /\ thermal_state'.cpu_temps[j] = thermal_state.cpu_temps[j]
      /\ thermal_state'.ssd_temps[j] = thermal_state.ssd_temps[j]

\* C36: ring-buffer invariant.  After every cycle history_count is in
\* [0,10] and history_index in [0,9]; history_count starts at 0, grows by
\* exactly one per cycle until it is 10 and then stays 10; and once the
\* buffer is full each cycle overwrites exactly the slot of the oldest
\* sample, so the buffer always holds the most recent samples.
C36_RingBuffer ==
  /\ [](/\ thermal_state.history_count \in 0..TEMP_HISTORY_SIZE
        /\ thermal_state.history_index \in 0..(TEMP_HISTORY_SIZE - 1)
        /\ thermal_state.history_count = Min2(cycles, TEMP_HISTORY_SIZE)
        /\ RingHoldsRecent)
  /\ [][ cycles' = cycles + 1 =>
           /\ thermal_state'.history_count
                = Min2(thermal_state.history_count + 1, TEMP_HISTORY_SIZE)
           /\ WritesOneSlot
           /\ thermal_state.history_count = TEMP_HISTORY_SIZE =>
                /\ thermal_state.history_index + 1 = SlotOf(1)
                /\ thermal_state'.cpu_temps[thermal_state.history_index + 1]
                     = last'.cpu_temp
                /\ thermal_state'.ssd_temps[thermal_state.history_index + 1]
                     = last'.max_ssd_temp ]_vars

\* (C36: the buffer has wrapped and the write position is past slot 0; the
\* oldest sample differs from the newest.)
C36_Witness ==
  /\ cycles > TEMP_HISTORY_SIZE + 1
  /\ thermal_state.history_count = TEMP_HISTORY_SIZE
  /\ thermal_state.history_index = cycles - TEMP_HISTORY_SIZE
  /\ samples[1].cpu # samples[TEMP_HISTORY_SIZE].cpu
  /\ thermal_state.cpu_temps[thermal_state.history_index + 1] = samples[1].cpu

\* the smoothed CPU temperature of the last cycle is at or above lv3
AtMaxLevel == last.ran /\ last.cpu_avg >= cfg.fan.lv3

\* C37: if from some cycle onward the smoothed CPU temperature stays at or
\* above lv3, the returned duty eventually is 1.00 and stays 1.00.
C37_SustainedHeatReachesFullSpeed ==
  <>[]AtMaxLevel => <>[](last.ret = DutyScale)

\* (C37: every sample in the buffer is the same temperature above lv3, the
\* duty has been below 1.00 for more than five cycles, and the dead-band
\* keeps it there.)
C37_StuckBelowFullSpeed ==
  /\ AtMaxLevel
  /\ \A k \in 1..TEMP_HISTORY_SIZE : thermal_state.cpu_temps[k] = last.cpu_avg
  /\ last.prev.stable_cycles > 5
  /\ last.skip_adjustment
  /\ last.dc_target0 = DutyScale
  /\ last.ret < DutyScale
  /\ last.ret = last.prev.last_duty_cycle

\* (C37: sustained heat that does reach full speed.)
C37_FullSpeedReached ==
  /\ AtMaxLevel
  /\ \A k \in 1..TEMP_HISTORY_SIZE : thermal_state.cpu_temps[k] = last.cpu_avg
  /\ last.ret = DutyScale

\* the change the last cycle was asked for: target (after the dead-band
\* step) minus prior duty
RequiredChange == last.dc_target - last.prev.last_duty_cycle

\* the required change is within the step the tunables allow and is not a
\* decrease that an active hold blocks
WithinAllowedStep ==
  \/ RequiredChange >= 0 /\ RequiredChange <= AllowedUp
  \/ /\ RequiredChange < 0
     /\ ~last.hold_active
     /\ -RequiredChange <= cfg.thermal.down_rate_per_cycle

\* C38: the engine never overshoots.  In every cycle the returned duty lies
\* between the previous duty and the cycle's target, both included, and it
\* equals the target whenever the required change is within the allowed
\* step and is not a decrease blocked by an active hold.
C38_NoOvershoot ==
  last.ran =>
    /\ last.ret >= Min2(last.prev.last_duty_cycle, last.dc_target)
    /\ last.ret <= Max2(last.prev.last_duty_cycle, last.dc_target)
    /\ WithinAllowedStep => last.ret = last.dc_target

\* (C38: a decrease smaller than down_rate ends exactly at the target.)
C38_Witness ==
  /\ last.ran
  /\ RequiredChange < 0
  /\ -RequiredChange < cfg.thermal.down_rate_per_cycle
  /\ ~last.hold_active
  /\ last.ret = last.dc_target

\* (C38: a rate-limited rise ends strictly between prior duty and target.)
C38_RiseStopsShort ==
  /\ last.ran
  /\ last.ret > last.prev.last_duty_cycle
  /\ last.ret < last.dc_target

\* (C38: a rate-limited decrease ends strictly between target and prior duty.)
C38_FallStopsShort ==
  /\ last.ran
  /\ last.ret < last.prev.last_duty_cycle
  /\ last.ret > last.dc_target

\* this step of the thread calls gpiod_line_request_set_value
\* (fan.c:226, 232 or 235)
DrivesLine ==
  /\ thread'.pc # thread.pc
  /\ thread'.pc \in {"sleep_off", "sleep_high", "sleep_low"}

\* C39: the waveform thread never drives the GPIO line after fan_cleanup
\* has released the line request or closed the chip: whenever the thread
\* calls set_value, in any interleaving with fan_cleanup, the request is
\* still held and the chip still open.
C39_NoLineAccessAfterRelease ==
  [][DrivesLine => (gpio.line_requested /\ gpio.chip_open)]_vars

\* (C39: fan_cleanup has released the request while the thread is inside an
\* iteration, about to end its active phase.)
C39_ReleasedUnderRunningThread ==
  /\ ~gpio.line_requested
  /\ thread.pc = "sleep_high"
  /\ thread.line = 1

\* (C39: the thread left its loop before the release.)
C39_ThreadExitedBeforeRelease ==
  /\ main_pc = "wait"
  /\ gpio.line_requested
  /\ thread.pc = "exit"

\* the thread is at its loop test or has left the loop
AtLoopTest == thread.pc \in {"test", "exit"}

\* C40: every iteration of the waveform thread ends with the line driven
\* inactive: at every loop test, and so when the thread exits on shutdown,
\* the fan line is inactive.
C40_LineInactiveAtLoopTest ==
  AtLoopTest => thread.line = 0

\* (C40: as long as the line request is held, the line is inactive at every
\* loop test.)
C40_InactiveWhileRequestHeld ==
  (AtLoopTest /\ gpio.line_requested) => thread.line = 0

\* (C40: the thread has left its loop on shutdown with the line active.)
C40_ExitWithLineActive ==
  /\ thread.pc = "exit"
  /\ thread.line = 1

\* (C40: an iteration with an active phase has ended with the line inactive.)
C40_IterationEndedInactive ==
  /\ thread.pc = "test"
  /\ thread.high_us > 0
  /\ thread.line = 0

====
